---- MODULE Spec2Model ----
(***************************************************************************)
(* A model of the sqlite-vfs adapter of threeqlite: the per-file state     *)
(* (FileExt), the database lock ladder (io::lock, io::unlock) and the      *)
(* shared-memory protocol of the WAL index (io::shm_map, io::shm_lock,     *)
(* io::shm_unmap), as written in sqlite-vfs/src/lib.rs (the async copy in  *)
(* sqlite-vfs/src/io.rs runs the same steps).  The backend (DatabaseHandle *)
(* and wip::WalIndex) is an external collaborator: every call into it may  *)
(* answer in any way its Result type allows.                               *)
(***************************************************************************)
EXTENDS Integers, Sequences, FiniteSets, TLC

\* ---------------------------------------------------------------- bounds
MaxRegion == 1
MaxSlot == 1
MaxVal == 1
MaxAddr == 1
MaxOpens == 1
MaxLen == 3

\* The only region size shm_map accepts.
RegionSize == 32768

Files == {"f1", "f2"}
Regions == 0 .. MaxRegion
Slots == 0 .. MaxSlot
Vals == 0 .. MaxVal
Addrs == 0 .. MaxAddr

\* region_size arguments the engine may pass: the right one and two wrong ones.
RegionSizes == {RegionSize, RegionSize - 1, 4096}

\* e_lock arguments: the five lock codes and two integers that are none.
LockCodes == -1 .. 5

\* flags arguments of shm_lock, as the sets of SQLITE_SHM_* bits they carry.
ShmFlags == {{"LOCK", "SHARED"}, {"LOCK", "EXCLUSIVE"},
             {"UNLOCK", "SHARED"}, {"UNLOCK", "EXCLUSIVE"}}

VARIABLES
    wal_enabled,          \* F::WalIndex::enabled(), fixed by the backend type
    backend_faulty,       \* whether the backend of this run ever answers Err
    backend_syncs,        \* whether the backend's WalIndex has a pull and a push
                          \* of its own (else the trait's, which do nothing)
    wal_index,            \* FileExt.wal_index: Option<(WalIndex, readonly)>
    wal_index_regions,    \* FileExt.wal_index_regions: region -> pinned buffer
    wal_index_locks,      \* FileExt.wal_index_locks: slot -> WalIndexLock
    has_exclusive_lock,   \* FileExt.has_exclusive_lock
    last_errno,           \* FileExt.last_errno
    last_error,           \* the slot shared with the VFS: Option<(code, error)>
    backend_regions,      \* the backend's copy of each WAL-index region
    backend_locks,        \* the slots the backend has granted to each file
    last_granted,         \* history: level of the last lock/unlock answered Ok(true)
    pc,                   \* a file's position inside a running shm_lock
    payload,              \* FileState.ext: MaybeUninit<FileExt>, per file slot
    out_flags,            \* the engine's integer behind p_out_flags, per file slot
    next_id,              \* State.next_id
    arg_flags,            \* an i32 flag set held by a caller of from_flags
    arg_opts,             \* the Option<OpenOptions> that caller holds
    arg_lock,             \* an i32 lock code held by a caller of from_i32
    arg_kinds,            \* the two LockKinds that caller holds
    arg_cmp,              \* the Option<Ordering> that caller holds
    chunk_size,           \* FileExt.chunk_size: Option<usize>
    backend_len,          \* the length of the file behind each handle
    p_arg,                \* the engine's integer behind an output pointer
    persist_wal,          \* FileExt.persist_wal
    s3,                   \* the bucket of the example backend: its two objects
    client,               \* each client of the bucket: its Inner and its position
    barrier_pc            \* a file's position inside a running shm_barrier

vars == <<wal_enabled, backend_faulty, backend_syncs, wal_index, wal_index_regions, wal_index_locks,
          has_exclusive_lock, last_errno, last_error, backend_regions,
          backend_locks, last_granted, pc, payload, out_flags, next_id,
          arg_flags, arg_opts, arg_lock, arg_kinds, arg_cmp, chunk_size,
          backend_len, p_arg, persist_wal, s3, client, barrier_pc>>

\* What the open path and the flag conversions own.
open_vars == <<payload, out_flags, next_id, arg_flags, arg_opts>>

\* What a caller of the LockKind conversions owns.
lock_kind_vars == <<arg_lock, arg_kinds, arg_cmp>>

\* What the plain file methods own.
io_vars == <<chunk_size, backend_len, p_arg, persist_wal>>

\* What the example backend (src/vfs.rs, src/handle.rs) owns.
s3_vars == <<s3, client>>

\* -------------------------------------------------------------- helpers

Empty == [x \in {} |-> 0]

\* A map with key k set to v (HashMap::insert).
Insert(m, k, v) == [x \in DOMAIN m \cup {k} |-> IF x = k THEN v ELSE m[x]]

\* Every order in which a HashMap iterator may visit the keys S.
Orders(S) ==
    {o \in [1 .. Cardinality(S) -> S] :
        \A i, j \in 1 .. Cardinality(S) : i # j => o[i] # o[j]}

NoIndex == [present |-> FALSE, readonly |-> FALSE]

NoError == [set |-> FALSE, code |-> "SQLITE_OK", diag |-> "none"]

\* No shm_lock is running on the file.
Idle == [state |-> "idle", offset |-> 0, n |-> 0, flags |-> {}, calls |-> <<>>]

\* No shm_barrier is running on the file.
BarrierIdle == [mode |-> "idle", todo |-> {}]

\* ------------------------------------------------------ LockKind (lib.rs)

LockKind == {"None", "Shared", "Reserved", "Pending", "Exclusive"}

\* A variant of the conversion that clamps instead of rejecting.
from_i32_clamped(code) ==
    CASE code <= 0 -> "None"
      [] code = 1 -> "Shared"
      [] code = 2 -> "Reserved"
      [] code = 3 -> "Pending"
      [] OTHER -> "Exclusive"

\* LockKind::from_i32: `None` of the Option is "Invalid".
from_i32(code) ==
    CASE code = 0 -> "None"
      [] code = 1 -> "Shared"
      [] code = 2 -> "Reserved"
      [] code = 3 -> "Pending"
      [] code = 4 -> "Exclusive"
      [] OTHER -> "Invalid"

\* A variant of the conversion with two neighbouring codes exchanged.
to_i32_exchanged(kind) ==
    CASE kind = "None" -> 0
      [] kind = "Shared" -> 1
      [] kind = "Reserved" -> 3
      [] kind = "Pending" -> 2
      [] kind = "Exclusive" -> 4

\* LockKind::to_i32.
to_i32(kind) ==
    CASE kind = "None" -> 0
      [] kind = "Shared" -> 1
      [] kind = "Reserved" -> 2
      [] kind = "Pending" -> 3
      [] kind = "Exclusive" -> 4

\* PartialOrd for LockKind: the Ordering of a against b.
partial_cmp(a, b) ==
    IF to_i32(a) < to_i32(b) THEN "Less"
    ELSE IF to_i32(a) = to_i32(b) THEN "Equal"
    ELSE "Greater"

\* ------------------------------------------------- OpenOptions (lib.rs)

\* The engine's open flags that lib.rs reads and writes (values of sqlite3.h).
SQLITE_OPEN_READONLY == 1
SQLITE_OPEN_READWRITE == 2
SQLITE_OPEN_CREATE == 4
SQLITE_OPEN_DELETEONCLOSE == 8
SQLITE_OPEN_EXCLUSIVE == 16
SQLITE_OPEN_URI == 64
SQLITE_OPEN_MAIN_DB == 256
SQLITE_OPEN_TEMP_DB == 512
SQLITE_OPEN_TRANSIENT_DB == 1024
SQLITE_OPEN_MAIN_JOURNAL == 2048
SQLITE_OPEN_TEMP_JOURNAL == 4096
SQLITE_OPEN_SUBJOURNAL == 8192
SQLITE_OPEN_SUPER_JOURNAL == 16384
SQLITE_OPEN_WAL == 524288

OpenKind == {"MainDb", "MainJournal", "TempDb", "TempJournal", "TransientDb",
             "SubJournal", "SuperJournal", "Wal"}

OpenAccess == {"Read", "Write", "Create", "CreateNew"}

\* Some(OpenOptions {..}) and the None of Option<OpenOptions>.
SomeOptions(kind, access, delete_on_close) ==
    [some |-> TRUE, kind |-> kind, access |-> access,
     delete_on_close |-> delete_on_close]

NoOptions ==
    [some |-> FALSE, kind |-> "Invalid", access |-> "Invalid",
     delete_on_close |-> FALSE]

AllOptions ==
    {SomeOptions(k, a, d) : k \in OpenKind, a \in OpenAccess, d \in BOOLEAN}

\* flags & bit > 0, for a mask of one bit.
HasBit(flags, bit) == (flags \div bit) % 2 = 1

\* a | b.
RECURSIVE BitOr(_, _)
BitOr(a, b) ==
    IF a = 0 THEN b
    ELSE IF b = 0 THEN a
    ELSE (IF a % 2 = 1 \/ b % 2 = 1 THEN 1 ELSE 0)
             + 2 * BitOr(a \div 2, b \div 2)

\* OpenKind::from_flags: the first arm whose bit is set, `None` as "Invalid".
OpenKind_from_flags(flags) ==
    IF HasBit(flags, SQLITE_OPEN_MAIN_DB) THEN "MainDb"
    ELSE IF HasBit(flags, SQLITE_OPEN_MAIN_JOURNAL) THEN "MainJournal"
    ELSE IF HasBit(flags, SQLITE_OPEN_TEMP_DB) THEN "TempDb"
    ELSE IF HasBit(flags, SQLITE_OPEN_TEMP_JOURNAL) THEN "TempJournal"
    ELSE IF HasBit(flags, SQLITE_OPEN_TRANSIENT_DB) THEN "TransientDb"
    ELSE IF HasBit(flags, SQLITE_OPEN_SUBJOURNAL) THEN "SubJournal"
    ELSE IF HasBit(flags, SQLITE_OPEN_SUPER_JOURNAL) THEN "SuperJournal"
    ELSE IF HasBit(flags, SQLITE_OPEN_WAL) THEN "Wal"
    ELSE "Invalid"

\* OpenKind::to_flags.
OpenKind_to_flags(kind) ==
    CASE kind = "MainDb" -> SQLITE_OPEN_MAIN_DB
      [] kind = "MainJournal" -> SQLITE_OPEN_MAIN_JOURNAL
      [] kind = "TempDb" -> SQLITE_OPEN_TEMP_DB
      [] kind = "TempJournal" -> SQLITE_OPEN_TEMP_JOURNAL
      [] kind = "TransientDb" -> SQLITE_OPEN_TRANSIENT_DB
      [] kind = "SubJournal" -> SQLITE_OPEN_SUBJOURNAL
      [] kind = "SuperJournal" -> SQLITE_OPEN_SUPER_JOURNAL
      [] kind = "Wal" -> SQLITE_OPEN_WAL

\* A variant of the decoding that takes CREATE for CreateNew without
\* looking at EXCLUSIVE.
OpenAccess_from_flags_create_new(flags) ==
    IF HasBit(flags, SQLITE_OPEN_CREATE) THEN "CreateNew"
    ELSE IF HasBit(flags, SQLITE_OPEN_READWRITE) THEN "Write"
    ELSE IF HasBit(flags, SQLITE_OPEN_READONLY) THEN "Read"
    ELSE "Invalid"

\* OpenAccess::from_flags: the first arm that matches, `None` as "Invalid".
OpenAccess_from_flags(flags) ==
    IF HasBit(flags, SQLITE_OPEN_CREATE) /\ HasBit(flags, SQLITE_OPEN_EXCLUSIVE)
    THEN "CreateNew"
    ELSE IF HasBit(flags, SQLITE_OPEN_CREATE) THEN "Create"
    ELSE IF HasBit(flags, SQLITE_OPEN_READWRITE) THEN "Write"
    ELSE IF HasBit(flags, SQLITE_OPEN_READONLY) THEN "Read"
    ELSE "Invalid"

\* OpenAccess::to_flags.
OpenAccess_to_flags(access) ==
    CASE access = "Read" -> SQLITE_OPEN_READONLY
      [] access = "Write" -> SQLITE_OPEN_READWRITE
      [] access = "Create" -> BitOr(SQLITE_OPEN_READWRITE, SQLITE_OPEN_CREATE)
      [] access = "CreateNew" ->
             BitOr(BitOr(SQLITE_OPEN_READWRITE, SQLITE_OPEN_CREATE),
                   SQLITE_OPEN_EXCLUSIVE)

\* OpenOptions::from_flags: `?` on the kind, then on the access.
OpenOptions_from_flags(flags) ==
    IF OpenKind_from_flags(flags) = "Invalid" THEN NoOptions
    ELSE IF OpenAccess_from_flags(flags) = "Invalid" THEN NoOptions
    ELSE SomeOptions(OpenKind_from_flags(flags), OpenAccess_from_flags(flags),
                     HasBit(flags, SQLITE_OPEN_DELETEONCLOSE))

\* OpenOptions::to_flags.
OpenOptions_to_flags(opts) ==
    BitOr(BitOr(OpenKind_to_flags(opts.kind), OpenAccess_to_flags(opts.access)),
          IF opts.delete_on_close THEN SQLITE_OPEN_DELETEONCLOSE ELSE 0)

\* -------------------------------------------------- WAL-index lock modes

WalIndexLock == {"None", "Shared", "Exclusive"}

\* `.any(|(_, lock)| *lock == WalIndexLock::Exclusive)`
HasExclusive(locks) == \E s \in DOMAIN locks : locks[s] = "Exclusive"

\* `offset as u8..(offset + n) as u8`
ShmRange(offset, n) == [lo |-> offset % 256, hi |-> (offset + n) % 256]

\* The slots a Range<u8> holds (none when hi <= lo).
RangeSlots(range) == range.lo .. (range.hi - 1)

\* `match (locking, exclusive)`
ShmLockMode(flags) ==
    IF "LOCK" \in flags
    THEN IF "EXCLUSIVE" \in flags THEN "Exclusive" ELSE "Shared"
    ELSE "None"

\* -------------------------------------------------------------- state

\* The names the engine opens, and what it passes for none and for bytes
\* that are no UTF-8.
Names == {"db"}
NullName == "<null>"
BadName == "<not utf8>"

\* Option<usize>: `chunk_size: None` and `Some(c)`.
NoChunk == [some |-> FALSE, size |-> 0]
SomeChunk(c) == [some |-> TRUE, size |-> c]

\* The integer behind an output pointer before anything was written to it:
\* `val` when it is read as a number, `errno` when as a status.
NoArg == [val |-> 0, errno |-> "SQLITE_OK", name |-> "none"]

\* ------------------------------------- the example backend's bucket (S3)

\* The processes that share the bucket, each with its own Inner.
Clients == {"c1", "c2"}

\* How many identifiers one client draws from Uuid::new_v4().
MaxUuid == 3

\* Uuid::new_v4(): the n-th identifier of client c, equal to no other.
NoId == <<"none", 0>>
Uuid(c, n) == <<c, n>>

\* enum Metadata.  `readers` is a Vec of identifiers that are all different,
\* kept as the set of them; Option<Vec<u8>> is an identifier or NoId.
MetadataNone ==
    [kind |-> "None", writer |-> NoId, readers |-> {}, write_request |-> NoId]
MetadataWriter(id) ==
    [kind |-> "Writer", writer |-> id, readers |-> {}, write_request |-> NoId]
MetadataReader(readers, write_request) ==
    [kind |-> "Reader", writer |-> NoId, readers |-> readers,
     write_request |-> write_request]

\* What the body of the lock file can hold: nothing, the 16 bytes of an
\* identifier, or bincode::serialize of a Metadata.
EmptyBody == [is |-> "empty", id |-> NoId, meta |-> MetadataNone]
UuidBody(id) == [is |-> "uuid", id |-> id, meta |-> MetadataNone]
Serialize(meta) == [is |-> "meta", id |-> NoId, meta |-> meta]

\* `bincode::deserialize(bytes).unwrap_or(Metadata::None)`: bytes that are no
\* serialized Metadata decode to None.
Deserialize(body) == IF body.is = "meta" THEN body.meta ELSE MetadataNone

\* An object of the bucket that does not exist, and one that a put_object
\* wrote: `hold` is the legal hold of the version written, "Unset" when the
\* request named none.
NoObject == [exists |-> FALSE, body |-> EmptyBody, hold |-> "Unset"]
Object(body, hold) == [exists |-> TRUE, body |-> body, hold |-> hold]

\* A client that is not inside any call.  `pc` is its position: the call of
\* Inner or Handle it runs (op), the part of it (phase) and the request it
\* makes next (at); the other fields are the fields of Inner and
\* S3FileLock and the locals of the running call.
AtRest == [op |-> "none", phase |-> "none", at |-> "idle"]
\* `db_filename: "test.db"`: the key read_exact_at and write_at name.
DbFilename == "test.db"

\* The names a Handle is opened under: Handle.obj_key, the key set_len names.
ObjKeys == {DbFilename, "other.db"}

\* The client of a Handle opened under the name obj_key.
OpenedClient(obj_key) ==
    [pc |-> AtRest,
     obj_key |-> obj_key,       \* Handle.obj_key
     next_uuid |-> 1,
     lock_uuid |-> NoId,
     file_lock |-> NoId,
     rw_uuid |-> NoId,
     current_lock |-> NoId,
     meta |-> MetadataNone,
     size |-> 0,
     bytes |-> <<>>]

IdleClient ==
    [pc |-> AtRest,
     obj_key |-> DbFilename,    \* Handle.obj_key
     next_uuid |-> 1,           \* how many identifiers were drawn, plus one
     lock_uuid |-> NoId,        \* S3FileLock::request_lock's lock_uuid
     file_lock |-> NoId,        \* S3FileLock.current_lock
     rw_uuid |-> NoId,          \* request_read_lock / request_write_lock's lock_uuid
     current_lock |-> NoId,     \* Inner.current_lock
     meta |-> MetadataNone,     \* the Metadata read last
     size |-> 0,                \* set_len's argument
     bytes |-> <<>>]            \* set_len's bytes

\* A bucket nobody has used, and nobody using it.
S3Unused ==
    /\ s3 = [lock_file |-> NoObject, db |-> <<>>, db_exists |-> FALSE,
             obj |-> <<>>, obj_exists |-> FALSE, streamed |-> FALSE]
    /\ client = [c \in Clients |-> IdleClient]

\* MaybeUninit::uninit(): a slot without a payload.
Uninit ==
    [init |-> FALSE, db_name |-> NullName, file |-> NoOptions,
     delete_on_close |-> FALSE, id |-> 0, powersafe_overwrite |-> FALSE]

\* The FileExt that open writes: `file` is the backend handle, known by the
\* options the backend opened it with.
FileExt(db_name, file, delete_on_close, id, powersafe_overwrite) ==
    [init |-> TRUE, db_name |-> db_name, file |-> file,
     delete_on_close |-> delete_on_close, id |-> id,
     powersafe_overwrite |-> powersafe_overwrite]

\* The payload of a main database opened read-write under the name "db".
OpenedExt(id) ==
    FileExt("db", SomeOptions("MainDb", "Create", FALSE), FALSE, id, TRUE)

\* The files right after vfs::open (`wal_index: None`, empty maps, no error).
FilesOpened ==
    /\ wal_index = [f \in Files |-> NoIndex]
    /\ wal_index_regions = [f \in Files |-> Empty]
    /\ wal_index_locks = [f \in Files |-> Empty]
    /\ has_exclusive_lock = [f \in Files |-> FALSE]
    /\ last_errno = [f \in Files |-> "SQLITE_OK"]
    /\ last_error = NoError
    /\ backend_regions = [r \in Regions |-> 0]
    /\ backend_locks = [f \in Files |-> [s \in Slots |-> "None"]]
    /\ last_granted = [f \in Files |-> "NoGrant"]
    /\ pc = [f \in Files |-> Idle]
    /\ barrier_pc = [f \in Files |-> BarrierIdle]
    /\ payload = [f \in Files |-> OpenedExt(IF f = "f1" THEN 0 ELSE 1)]
    /\ out_flags = [f \in Files |-> OpenOptions_to_flags(OpenedExt(0).file)]
    /\ next_id = 2
    /\ chunk_size = [f \in Files |-> NoChunk]
    /\ backend_len = [f \in Files |-> 0]
    /\ p_arg = NoArg
    /\ persist_wal = [f \in Files |-> FALSE]

\* The files right after vfs::open, over a bucket not in use.
Opened == FilesOpened /\ S3Unused

\* Nobody is converting open flags.
NoCaller == arg_flags = 0 /\ arg_opts = NoOptions

\* Nobody is converting or comparing lock levels.
NoLockCaller ==
    /\ arg_lock = 0
    /\ arg_kinds = <<"None", "None">>
    /\ arg_cmp = "Unset"

\* Any backend: its WAL index enabled or not, its calls free to fail.
Init ==
    /\ wal_enabled \in BOOLEAN
    /\ backend_faulty = TRUE
    /\ backend_syncs \in BOOLEAN
    /\ Opened
    /\ NoCaller
    /\ NoLockCaller

\* A backend with a WAL index whose calls all succeed.
InitRace ==
    /\ wal_enabled = TRUE
    /\ backend_faulty = FALSE
    /\ backend_syncs \in BOOLEAN
    /\ Opened
    /\ NoCaller
    /\ NoLockCaller

\* The file slots before any open: no payload behind any of them.
Closed ==
    /\ wal_index = [f \in Files |-> NoIndex]
    /\ wal_index_regions = [f \in Files |-> Empty]
    /\ wal_index_locks = [f \in Files |-> Empty]
    /\ has_exclusive_lock = [f \in Files |-> FALSE]
    /\ last_errno = [f \in Files |-> "SQLITE_OK"]
    /\ last_error = NoError
    /\ backend_regions = [r \in Regions |-> 0]
    /\ backend_locks = [f \in Files |-> [s \in Slots |-> "None"]]
    /\ last_granted = [f \in Files |-> "NoGrant"]
    /\ pc = [f \in Files |-> Idle]
    /\ barrier_pc = [f \in Files |-> BarrierIdle]
    /\ payload = [f \in Files |-> Uninit]
    /\ out_flags = [f \in Files |-> 0]
    /\ next_id = 0
    /\ chunk_size = [f \in Files |-> NoChunk]
    /\ backend_len = [f \in Files |-> 0]
    /\ p_arg = NoArg
    /\ persist_wal = [f \in Files |-> FALSE]
    /\ S3Unused

\* A VFS just registered, over a backend whose calls are free to fail.
InitOpen ==
    /\ wal_enabled = TRUE
    /\ backend_faulty = TRUE
    /\ backend_syncs = TRUE
    /\ Closed
    /\ NoCaller
    /\ NoLockCaller

\* ------------------------------------------------------ error recording

\* FileExt::set_last_error: the shared slot and the file's own last_errno.
set_last_error(f, no, diag) ==
    /\ last_error' = [set |-> TRUE, code |-> no, diag |-> diag]
    /\ last_errno' = [last_errno EXCEPT ![f] = no]

\* What an entry point leaves in the error slots: err = "none" records nothing.
Record(f, ret, err) ==
    IF err = "none"
    THEN UNCHANGED <<last_error, last_errno>>
    ELSE set_last_error(f, ret, err)

\* ------------------------------------------------------------- shm_map

\* A variant of the size test that lets smaller regions through.
RegionSizeAtMost(region_size) == region_size <= RegionSize

\* `if region_size != 32768`
ValidRegionSize(region_size) == region_size = RegionSize

\* A variant that tries again as readonly after any error.
RetryAlways(err) == TRUE

\* `if err.kind() == ErrorKind::PermissionDenied`: try again as readonly.
RetryReadonly(err) == err = "PermissionDenied"

\* The answers of DatabaseHandle::wal_index.
WalIndexResults ==
    IF backend_faulty THEN {"Ok", "PermissionDenied", "Other"} ELSE {"Ok"}

WalIndexCall(readonly, res) ==
    [op |-> "wal_index", readonly |-> readonly, res |-> res]

\* `state.wal_index.get_or_insert(..)`: the slot after the step, the backend
\* calls made and the error that ends shm_map ("none": go on).  A failed
\* retry reports the first error (`.map_err(|_| err)`).
ObtainWalIndex(f) ==
    IF wal_index[f].present
    THEN {[index |-> wal_index[f], calls |-> <<>>, err |-> "none"]}
    ELSE UNION {
        IF r1 = "Ok"
        THEN {[index |-> [present |-> TRUE, readonly |-> FALSE],
               calls |-> <<WalIndexCall(FALSE, r1)>>, err |-> "none"]}
        ELSE IF RetryReadonly(r1)
        THEN {IF r2 = "Ok"
              THEN [index |-> [present |-> TRUE, readonly |-> TRUE],
                    calls |-> <<WalIndexCall(FALSE, r1), WalIndexCall(TRUE, r2)>>,
                    err |-> "none"]
              ELSE [index |-> NoIndex,
                    calls |-> <<WalIndexCall(FALSE, r1), WalIndexCall(TRUE, r2)>>,
                    err |-> r1]
              : r2 \in WalIndexResults}
        ELSE {[index |-> NoIndex,
               calls |-> <<WalIndexCall(FALSE, r1)>>, err |-> r1]}
        : r1 \in WalIndexResults}

\* Addresses of the buffers alive in the process.
UsedAddrs ==
    UNION {{wal_index_regions[f][r].addr : r \in DOMAIN wal_index_regions[f]}
           : f \in Files}

\* `Box::pin(m)`: a fresh allocation, at any address no live buffer has.
FreshAddrs == Addrs \ UsedAddrs

\* A variant without the Occupied arm: every call maps and pins anew.
MapEntryAnew(regions, region_ix) ==
    {[regions |-> Insert(regions, region_ix,
                         [addr |-> a, data |-> backend_regions[region_ix]]),
      calls |-> <<[op |-> "map", region |-> region_ix, res |-> "Ok"]>>,
      err |-> "none", pp |-> a] : a \in FreshAddrs}

\* `state.wal_index_regions.entry(region_ix)`: Occupied hands out the buffer
\* already pinned; Vacant calls wal_index.map, pins the result and inserts it.
MapEntry(regions, region_ix) ==
    IF region_ix \in DOMAIN regions
    THEN {[regions |-> regions, calls |-> <<>>, err |-> "none",
           pp |-> regions[region_ix].addr]}
    ELSE {[regions |-> Insert(regions, region_ix,
                              [addr |-> a, data |-> backend_regions[region_ix]]),
           calls |-> <<[op |-> "map", region |-> region_ix, res |-> "Ok"]>>,
           err |-> "none", pp |-> a] : a \in FreshAddrs}
         \cup
         {[regions |-> regions,
           calls |-> <<[op |-> "map", region |-> region_ix, res |-> "Err"]>>,
           err |-> "Other", pp |-> -1] : e \in IF backend_faulty THEN {1} ELSE {}}

\* Every way one shm_map call can run: the status returned, the error
\* recorded ("none": none), the backend calls in order, the address written
\* through the out pointer (-1: not written) and the fields it leaves.
ShmMapOutcomes(f, region_ix, region_size) ==
    IF ~wal_enabled
    THEN {[ret |-> "SQLITE_IOERR_SHMLOCK", err |-> "none", index |-> wal_index[f],
           regions |-> wal_index_regions[f], locks |-> wal_index_locks[f],
           calls |-> <<>>, pp |-> -1]}
    ELSE IF ~ValidRegionSize(region_size)
    THEN {[ret |-> "SQLITE_IOERR_SHMMAP", err |-> "InvalidRegionSize",
           index |-> wal_index[f], regions |-> wal_index_regions[f],
           locks |-> wal_index_locks[f], calls |-> <<>>, pp |-> -1]}
    ELSE UNION {
        IF o.err # "none"
        THEN {[ret |-> "SQLITE_IOERR_SHMMAP", err |-> o.err, index |-> o.index,
               regions |-> wal_index_regions[f], locks |-> wal_index_locks[f],
               calls |-> o.calls, pp |-> -1]}
        ELSE {[ret |-> IF m.err # "none" THEN "SQLITE_IOERR_SHMMAP"
                       ELSE IF o.index.readonly THEN "SQLITE_READONLY"
                       ELSE "SQLITE_OK",
               err |-> m.err, index |-> o.index, regions |-> m.regions,
               locks |-> wal_index_locks[f], calls |-> o.calls \o m.calls,
               pp |-> m.pp]
              : m \in MapEntry(wal_index_regions[f], region_ix)}
        : o \in ObtainWalIndex(f)}

shm_map(f, region_ix, region_size) ==
    /\ pc[f].state = "idle"
    /\ \E out \in ShmMapOutcomes(f, region_ix, region_size) :
        /\ wal_index' = [wal_index EXCEPT ![f] = out.index]
        /\ wal_index_regions' = [wal_index_regions EXCEPT ![f] = out.regions]
        /\ wal_index_locks' = [wal_index_locks EXCEPT ![f] = out.locks]
        /\ Record(f, out.ret, out.err)
    /\ UNCHANGED <<open_vars, lock_kind_vars, s3_vars, barrier_pc, io_vars, wal_enabled, backend_faulty, backend_syncs, has_exclusive_lock,
                   backend_regions, backend_locks, last_granted, pc>>

\* ------------------------------------------------------------ shm_lock

\* Whether a pull or a push can answer Err: the trait's own never do
\* (`Ok(())`), an implementation of the backend may.
TransferFails == backend_faulty /\ backend_syncs

\* One run of `for (region, data) in &mut state.wal_index_regions` whose body
\* returns at the first backend failure: the order the map is visited in and
\* the number of calls that succeed (all of them: no failure).
LoopRuns(keys) ==
    {[order |-> o, done |-> k]
     : o \in Orders(keys),
       k \in IF TransferFails THEN 0 .. Cardinality(keys) ELSE {Cardinality(keys)}}

RunFailed(run) == run.done < Len(run.order)

RunDone(run) == {run.order[i] : i \in 1 .. run.done}

RunCalls(op, run) ==
    [i \in 1 .. (IF RunFailed(run) THEN run.done + 1 ELSE run.done) |->
        [op |-> op, region |-> run.order[i],
         res |-> IF i <= run.done THEN "Ok" ELSE "Err"]]

\* wal_index.pull(region, data): the backend's copy overwrites the buffer
\* when the backend implements pull; the trait's pull leaves the buffer as
\* it is.
PullInto(regions, done) ==
    [r \in DOMAIN regions |->
        IF r \in done /\ backend_syncs
        THEN [regions[r] EXCEPT !.data = backend_regions[r]]
        ELSE regions[r]]

\* wal_index.push(region, data): the buffer overwrites the backend's copy
\* when the backend implements push; the trait's push stores nothing.
PushFrom(regions, done) ==
    [r \in Regions |-> IF r \in done /\ backend_syncs THEN regions[r].data
                       ELSE backend_regions[r]]

\* A variant of the acquire branch that skips the pull once any slot is
\* recorded, in whatever mode.
PullsOnlyWithoutSlots(locks) == DOMAIN locks = {}

\* `if !has_exclusive` in the acquire branch.
PullsBeforeAcquire(locks) == ~HasExclusive(locks)

\* `*lock == Exclusive && range.contains(region)` for some slot.
ReleasesAnyExclusive(locks, range) ==
    \E s \in DOMAIN locks : locks[s] = "Exclusive" /\ s \in RangeSlots(range)

\* A variant of the release branch that looks for an Exclusive slot anywhere,
\* not only inside the range released.
PushesOnAnyExclusive(locks, range, readonly) == HasExclusive(locks) /\ ~readonly

\* `if releases_any_exclusive && !readonly`
PushesBeforeRelease(locks, range, readonly) ==
    ReleasesAnyExclusive(locks, range) /\ ~readonly

\* The pre-step of shm_lock, up to the call of wal_index.lock: the backend
\* calls made, the buffers and the backend's regions after them, and the
\* error that ends shm_lock ("none": go on to wal_index.lock).
ShmLockPre(f, range, flags) ==
    LET locks == wal_index_locks[f]
        regions == wal_index_regions[f]
        quiet == {[calls |-> <<>>, regions |-> regions,
                   backend |-> backend_regions, err |-> "none"]}
    IN  IF "LOCK" \in flags
        THEN IF PullsBeforeAcquire(locks)
             THEN {[calls |-> RunCalls("pull", run),
                    regions |-> PullInto(regions, RunDone(run)),
                    backend |-> backend_regions,
                    err |-> IF RunFailed(run) THEN "External" ELSE "none"]
                   : run \in LoopRuns(DOMAIN regions)}
             ELSE quiet
        ELSE IF PushesBeforeRelease(locks, range, wal_index[f].readonly)
             THEN {[calls |-> RunCalls("push", run),
                    regions |-> regions,
                    backend |-> PushFrom(regions, RunDone(run)),
                    err |-> IF RunFailed(run) THEN "External" ELSE "none"]
                   : run \in LoopRuns(DOMAIN regions)}
             ELSE quiet

\* Whether granting `lock` on the range to f would break the exclusion the
\* backend keeps between the files that share the index.
Conflicts(f, range, mode) ==
    \E g \in Files \ {f}, s \in RangeSlots(range) \cap Slots :
        \/ mode = "Exclusive" /\ backend_locks[g][s] # "None"
        \/ mode = "Shared" /\ backend_locks[g][s] = "Exclusive"

\* The answers of wal_index.lock: Ok(true) unless it conflicts, Ok(false)
\* (a client outside the model may hold the slot), or an error.
LockResults(f, range, mode) ==
    (IF Conflicts(f, range, mode) THEN {} ELSE {"true"})
    \cup {"false"} \cup (IF backend_faulty THEN {"err"} ELSE {})

\* A variant of the recording loop that runs over `lo ..= hi`, one slot too far.
LocksAfterGrantInclusive(locks, range, mode) ==
    [s \in DOMAIN locks \cup (range.lo .. range.hi) |->
        IF s \in range.lo .. range.hi THEN mode ELSE locks[s]]

\* `for region in range { state.wal_index_locks.insert(region, lock); }`
LocksAfterGrant(locks, range, mode) ==
    [s \in DOMAIN locks \cup RangeSlots(range) |->
        IF s \in RangeSlots(range) THEN mode ELSE locks[s]]

\* What the backend holds for the file once it has granted the range.
BackendAfterGrant(held, range, mode) ==
    [s \in Slots |-> IF s \in RangeSlots(range) THEN mode ELSE held[s]]

\* `match wal_index.lock(range.clone(), lock)`
ShmLockStatus(res) ==
    CASE res = "true" -> "SQLITE_OK"
      [] res = "false" -> "SQLITE_BUSY"
      [] OTHER -> "SQLITE_IOERR_SHMLOCK"

LockCall(range, mode, res) ==
    [op |-> "lock", lo |-> range.lo, hi |-> range.hi, mode |-> mode, res |-> res]

\* A variant of the early return that forgets the slots the file has recorded.
ShmLockFailForgets(f, err, calls, regions, backend) ==
    [ret |-> "SQLITE_IOERR_SHMLOCK", err |-> err, calls |-> calls,
     regions |-> regions, backend |-> backend,
     locks |-> Empty, held |-> backend_locks[f]]

\* shm_lock ending before wal_index.lock is called.
ShmLockFail(f, err, calls, regions, backend) ==
    [ret |-> "SQLITE_IOERR_SHMLOCK", err |-> err, calls |-> calls,
     regions |-> regions, backend |-> backend,
     locks |-> wal_index_locks[f], held |-> backend_locks[f]]

\* The call of wal_index.lock, answered `res`, and what follows it.
ShmLockAcquire(f, range, mode, calls, regions, backend, res) ==
    [ret |-> ShmLockStatus(res),
     err |-> IF res = "err" THEN "External" ELSE "none",
     calls |-> Append(calls, LockCall(range, mode, res)),
     regions |-> regions, backend |-> backend,
     locks |-> IF res = "true" THEN LocksAfterGrant(wal_index_locks[f], range, mode)
               ELSE wal_index_locks[f],
     held |-> IF res = "true" THEN BackendAfterGrant(backend_locks[f], range, mode)
              ELSE backend_locks[f]]

\* A variant that goes on to the backend without looking at the slot.
ShmLockOutcomesUnchecked(f, offset, n, flags) ==
    UNION {
        IF pre.err # "none"
        THEN {ShmLockFail(f, pre.err, pre.calls, pre.regions, pre.backend)}
        ELSE {ShmLockAcquire(f, ShmRange(offset, n), ShmLockMode(flags), pre.calls,
                             pre.regions, pre.backend, res)
              : res \in LockResults(f, ShmRange(offset, n), ShmLockMode(flags))}
        : pre \in ShmLockPre(f, ShmRange(offset, n), flags)}

\* Every way one shm_lock call can run when nothing interleaves with it.
ShmLockOutcomes(f, offset, n, flags) ==
    LET range == ShmRange(offset, n)
        mode == ShmLockMode(flags)
    IN  IF ~wal_index[f].present
        THEN {ShmLockFail(f, "WalIndexLock", <<>>, wal_index_regions[f],
                          backend_regions)}
        ELSE UNION {
            IF pre.err # "none"
            THEN {ShmLockFail(f, pre.err, pre.calls, pre.regions, pre.backend)}
            ELSE {ShmLockAcquire(f, range, mode, pre.calls, pre.regions,
                                 pre.backend, res)
                  : res \in LockResults(f, range, mode)}
            : pre \in ShmLockPre(f, range, flags)}

\* shm_lock returns `out`.
ShmLockReturn(f, out) ==
    /\ wal_index_regions' = [wal_index_regions EXCEPT ![f] = out.regions]
    /\ backend_regions' = out.backend
    /\ wal_index_locks' = [wal_index_locks EXCEPT ![f] = out.locks]
    /\ backend_locks' = [backend_locks EXCEPT ![f] = out.held]
    /\ Record(f, out.ret, out.err)

shm_lock(f, offset, n, flags) ==
    /\ pc[f].state = "idle"
    /\ \E out \in ShmLockOutcomes(f, offset, n, flags) : ShmLockReturn(f, out)
    /\ UNCHANGED <<open_vars, lock_kind_vars, s3_vars, barrier_pc, io_vars, wal_enabled, backend_faulty, backend_syncs, wal_index, has_exclusive_lock,
                   last_granted, pc>>

\* ----------------------------------------------------------- shm_unmap

\* A variant that deletes a readonly index too.
DeletesAnyIndex(f, delete_flags) == delete_flags = 1 /\ wal_index[f].present

\* `if delete_flags == 1` and the slot is `Some`, not readonly: delete is called.
DeletesIndex(f, delete_flags) ==
    delete_flags = 1 /\ wal_index[f].present /\ ~wal_index[f].readonly

\* A variant that empties the slot only when it goes on to delete the index.
IndexAfterDelete(f, delete_flags) ==
    IF DeletesIndex(f, delete_flags) THEN NoIndex ELSE wal_index[f]

\* `if delete_flags == 1 { .. state.wal_index.take() .. }`
IndexAfterUnmap(f, delete_flags) ==
    IF delete_flags = 1 THEN NoIndex ELSE wal_index[f]

\* Every way one shm_unmap call can run.
ShmUnmapOutcomes(f, delete_flags) ==
    {[ret |-> IF res = "Err" THEN "SQLITE_ERROR" ELSE "SQLITE_OK",
      err |-> IF res = "Err" THEN "External" ELSE "none",
      calls |-> IF res = "NotCalled" THEN <<>> ELSE <<[op |-> "delete", res |-> res]>>,
      regions |-> Empty, locks |-> Empty,
      index |-> IndexAfterUnmap(f, delete_flags)]
     : res \in IF ~DeletesIndex(f, delete_flags) THEN {"NotCalled"}
               ELSE IF backend_faulty THEN {"Ok", "Err"} ELSE {"Ok"}}

shm_unmap(f, delete_flags) ==
    /\ pc[f].state = "idle"
    /\ \E out \in ShmUnmapOutcomes(f, delete_flags) :
        /\ wal_index_regions' = [wal_index_regions EXCEPT ![f] = out.regions]
        /\ wal_index_locks' = [wal_index_locks EXCEPT ![f] = out.locks]
        /\ wal_index' = [wal_index EXCEPT ![f] = out.index]
        /\ Record(f, out.ret, out.err)
    /\ UNCHANGED <<open_vars, lock_kind_vars, s3_vars, barrier_pc, io_vars, wal_enabled, backend_faulty, backend_syncs, has_exclusive_lock, backend_regions, backend_locks,
                   last_granted, pc>>

\* ------------------------------------------------------- lock / unlock

\* The answers of DatabaseHandle::lock and ::unlock.
FileLockResults == {"true", "false"} \cup (IF backend_faulty THEN {"err"} ELSE {})

\* A variant that takes every level from Pending up for exclusive.
ExclusiveFromPending(kind) == kind \in {"Pending", "Exclusive"}

\* `state.has_exclusive_lock = lock == LockKind::Exclusive`
ExclusiveAfter(kind) == kind = "Exclusive"

\* A variant that does not look at the WAL-index slots before pulling.
PullsWheneverExclusive(f, kind) == ExclusiveAfter(kind) /\ wal_index[f].present

\* `if state.has_exclusive_lock` and `!has_exclusive_wal_index` and
\* `if let Some(..) = state.wal_index`: the regions are pulled.
PullsAfterLock(f, kind) ==
    ExclusiveAfter(kind) /\ ~HasExclusive(wal_index_locks[f]) /\ wal_index[f].present

\* One run of the pull loop of lock, whose failures are logged and do not
\* stop it: the order the map is visited in and the pulls that fail.
LoggedRuns(keys) ==
    {[order |-> o, bad |-> b]
     : o \in Orders(keys), b \in IF TransferFails THEN SUBSET keys ELSE {{}}}

LoggedCalls(op, run) ==
    [i \in 1 .. Len(run.order) |->
        [op |-> op, region |-> run.order[i],
         res |-> IF run.order[i] \in run.bad THEN "Err" ELSE "Ok"]]

FileLockCall(op, kind, res) == [op |-> op, level |-> kind, res |-> res]

\* Every way one lock call can run.
LockOutcomes(f, e_lock) ==
    LET kind == from_i32(e_lock)
        same(ret, err, calls) ==
            [ret |-> ret, err |-> err, calls |-> calls,
             excl |-> has_exclusive_lock[f], regions |-> wal_index_regions[f],
             granted |-> last_granted[f]]
    IN  IF kind = "Invalid"
        THEN {same("SQLITE_IOERR_LOCK", "none", <<>>)}
        ELSE {same("SQLITE_BUSY", "none", <<FileLockCall("file.lock", kind, "false")>>)}
             \cup
             {same("SQLITE_IOERR_LOCK", "External",
                   <<FileLockCall("file.lock", kind, "err")>>)
              : e \in FileLockResults \cap {"err"}}
             \cup
             {[ret |-> "SQLITE_OK", err |-> "none",
               calls |-> <<FileLockCall("file.lock", kind, "true")>>
                         \o LoggedCalls("pull", run),
               excl |-> ExclusiveAfter(kind),
               regions |-> PullInto(wal_index_regions[f],
                                    {run.order[i] : i \in 1 .. Len(run.order)} \ run.bad),
               granted |-> kind]
              : run \in IF PullsAfterLock(f, kind)
                        THEN LoggedRuns(DOMAIN wal_index_regions[f])
                        ELSE {[order |-> <<>>, bad |-> {}]}}

lock(f, e_lock) ==
    /\ pc[f].state = "idle"
    /\ \E out \in LockOutcomes(f, e_lock) :
        /\ has_exclusive_lock' = [has_exclusive_lock EXCEPT ![f] = out.excl]
        /\ wal_index_regions' = [wal_index_regions EXCEPT ![f] = out.regions]
        /\ last_granted' = [last_granted EXCEPT ![f] = out.granted]
        /\ Record(f, out.ret, out.err)
    /\ UNCHANGED <<open_vars, lock_kind_vars, s3_vars, barrier_pc, io_vars, wal_enabled, backend_faulty, backend_syncs, wal_index, wal_index_locks, backend_regions,
                   backend_locks, pc>>

\* Every way one unlock call can run.
UnlockOutcomes(f, e_lock) ==
    LET kind == from_i32(e_lock)
        same(ret, err, calls) ==
            [ret |-> ret, err |-> err, calls |-> calls,
             excl |-> has_exclusive_lock[f], granted |-> last_granted[f]]
    IN  IF kind = "Invalid"
        THEN {same("SQLITE_IOERR_UNLOCK", "none", <<>>)}
        ELSE {same("SQLITE_BUSY", "none", <<FileLockCall("file.unlock", kind, "false")>>),
              [ret |-> "SQLITE_OK", err |-> "none",
               calls |-> <<FileLockCall("file.unlock", kind, "true")>>,
               excl |-> ExclusiveAfter(kind), granted |-> kind]}
             \cup
             {same("SQLITE_IOERR_UNLOCK", "External",
                   <<FileLockCall("file.unlock", kind, "err")>>)
              : e \in FileLockResults \cap {"err"}}

unlock(f, e_lock) ==
    /\ pc[f].state = "idle"
    /\ \E out \in UnlockOutcomes(f, e_lock) :
        /\ has_exclusive_lock' = [has_exclusive_lock EXCEPT ![f] = out.excl]
        /\ last_granted' = [last_granted EXCEPT ![f] = out.granted]
        /\ Record(f, out.ret, out.err)
    /\ UNCHANGED <<open_vars, lock_kind_vars, s3_vars, barrier_pc, io_vars, wal_enabled, backend_faulty, backend_syncs, wal_index, wal_index_regions, wal_index_locks,
                   backend_regions, backend_locks, pc>>

\* --------------------------------------------------------- shm_barrier

\* A variant of the push test that forgets the readonly flag.
BarrierPushesReadonly(f) == has_exclusive_lock[f]

\* `if state.has_exclusive_lock && !readonly`
BarrierPushes(f) == has_exclusive_lock[f] /\ ~wal_index[f].readonly

\* `if !has_exclusive` (no slot of wal_index_locks is Exclusive)
BarrierPulls(f) == ~HasExclusive(wal_index_locks[f])

\* The regions a logged run has carried out.
LoggedDone(run) == {run.order[i] : i \in 1 .. Len(run.order)} \ run.bad

\* Every way one shm_barrier call can run: it returns nothing and records
\* no error; failures of push and pull are logged and the loop goes on.
ShmBarrierOutcomes(f) ==
    LET regions == wal_index_regions[f]
        quiet == {[calls |-> <<>>, regions |-> regions, backend |-> backend_regions,
                   locks |-> wal_index_locks[f], excl |-> has_exclusive_lock[f],
                   index |-> wal_index[f], err |-> "none"]}
    IN  IF ~wal_index[f].present
        THEN quiet
        ELSE IF BarrierPushes(f)
        THEN {[calls |-> LoggedCalls("push", run), regions |-> regions,
               backend |-> PushFrom(regions, LoggedDone(run)),
               locks |-> wal_index_locks[f], excl |-> has_exclusive_lock[f],
               index |-> wal_index[f], err |-> "none"]
              : run \in LoggedRuns(DOMAIN regions)}
        ELSE IF BarrierPulls(f)
        THEN {[calls |-> LoggedCalls("pull", run),
               regions |-> PullInto(regions, LoggedDone(run)),
               backend |-> backend_regions,
               locks |-> wal_index_locks[f], excl |-> has_exclusive_lock[f],
               index |-> wal_index[f], err |-> "none"]
              : run \in LoggedRuns(DOMAIN regions)}
        ELSE quiet

shm_barrier(f) ==
    /\ pc[f].state = "idle"
    /\ \E out \in ShmBarrierOutcomes(f) :
        /\ wal_index_regions' = [wal_index_regions EXCEPT ![f] = out.regions]
        /\ backend_regions' = out.backend
        /\ wal_index_locks' = [wal_index_locks EXCEPT ![f] = out.locks]
        /\ has_exclusive_lock' = [has_exclusive_lock EXCEPT ![f] = out.excl]
        /\ wal_index' = [wal_index EXCEPT ![f] = out.index]
        /\ Record(f, "none", out.err)
    /\ UNCHANGED <<open_vars, lock_kind_vars, s3_vars, barrier_pc, io_vars, wal_enabled, backend_faulty, backend_syncs, backend_locks, last_granted, pc>>

\* ------------------------------------------- shm_lock, step by step

\* shm_lock up to the call of wal_index.lock.  The backend calls of the
\* pre-step are made; unless one fails, the file is left about to call
\* wal_index.lock, and other files may run before it does.
shm_lock_begin(f, offset, n, flags) ==
    /\ pc[f].state = "idle"
    /\ IF ~wal_index[f].present
       THEN /\ ShmLockReturn(f, ShmLockFail(f, "WalIndexLock", <<>>,
                                            wal_index_regions[f], backend_regions))
            /\ UNCHANGED pc
       ELSE \E pre \in ShmLockPre(f, ShmRange(offset, n), flags) :
            IF pre.err # "none"
            THEN /\ ShmLockReturn(f, ShmLockFail(f, pre.err, pre.calls, pre.regions,
                                                 pre.backend))
                 /\ UNCHANGED pc
            ELSE /\ wal_index_regions' = [wal_index_regions EXCEPT ![f] = pre.regions]
                 /\ backend_regions' = pre.backend
                 /\ pc' = [pc EXCEPT ![f] = [state |-> "lock", offset |-> offset,
                                             n |-> n, flags |-> flags,
                                             calls |-> pre.calls]]
                 /\ UNCHANGED <<wal_index_locks, backend_locks, last_error, last_errno>>
    /\ UNCHANGED <<open_vars, lock_kind_vars, s3_vars, barrier_pc, io_vars, wal_enabled, backend_faulty, backend_syncs, wal_index, has_exclusive_lock, last_granted>>

\* What the pending wal_index.lock call of f may return into.
ShmLockPending(f) ==
    LET range == ShmRange(pc[f].offset, pc[f].n)
        mode == ShmLockMode(pc[f].flags)
    IN  {ShmLockAcquire(f, range, mode, pc[f].calls, wal_index_regions[f],
                        backend_regions, res)
         : res \in LockResults(f, range, mode)}

\* The call of wal_index.lock and the rest of shm_lock.
shm_lock_end(f) ==
    /\ pc[f].state = "lock"
    /\ \E out \in ShmLockPending(f) : ShmLockReturn(f, out)
    /\ pc' = [pc EXCEPT ![f] = Idle]
    /\ UNCHANGED <<open_vars, lock_kind_vars, s3_vars, barrier_pc, io_vars, wal_enabled, backend_faulty, backend_syncs, wal_index, has_exclusive_lock, last_granted>>

\* ---------------------------------------- shm_barrier, step by step

\* shm_barrier up to its first backend call: the two tests are made on the
\* FileExt as it is now, and the loop over the regions is about to start.
BarrierMode(f) ==
    IF ~wal_index[f].present \/ DOMAIN wal_index_regions[f] = {} THEN "idle"
    ELSE IF BarrierPushes(f) THEN "push"
    ELSE IF BarrierPulls(f) THEN "pull"
    ELSE "idle"

shm_barrier_begin(f) ==
    /\ barrier_pc[f].mode = "idle"
    /\ barrier_pc' = [barrier_pc EXCEPT ![f] =
            IF BarrierMode(f) = "idle" THEN BarrierIdle
            ELSE [mode |-> BarrierMode(f), todo |-> DOMAIN wal_index_regions[f]]]
    /\ UNCHANGED <<open_vars, lock_kind_vars, s3_vars, io_vars, wal_enabled,
                   backend_faulty, backend_syncs, wal_index, wal_index_regions, wal_index_locks,
                   has_exclusive_lock, last_errno, last_error, backend_regions,
                   backend_locks, last_granted, pc>>

\* One wal_index.push or wal_index.pull of the running loop returns; the
\* call after the last region returns from shm_barrier.  A failure is
\* logged and the loop goes on.
shm_barrier_call(f) ==
    /\ barrier_pc[f].mode \in {"push", "pull"}
    /\ \E r \in barrier_pc[f].todo :
        \E ok \in IF TransferFails THEN BOOLEAN ELSE {TRUE} :
            LET done == IF ok THEN {r} ELSE {}
                rest == barrier_pc[f].todo \ {r}
            IN  /\ IF barrier_pc[f].mode = "pull"
                   THEN /\ wal_index_regions' =
                              [wal_index_regions EXCEPT
                                  ![f] = PullInto(wal_index_regions[f], done)]
                        /\ UNCHANGED backend_regions
                   ELSE /\ backend_regions' = PushFrom(wal_index_regions[f], done)
                        /\ UNCHANGED wal_index_regions
                /\ barrier_pc' = [barrier_pc EXCEPT ![f] =
                        IF rest = {} THEN BarrierIdle
                        ELSE [barrier_pc[f] EXCEPT !.todo = rest]]
    /\ UNCHANGED <<open_vars, lock_kind_vars, s3_vars, io_vars, wal_enabled,
                   backend_faulty, backend_syncs, wal_index, wal_index_locks, has_exclusive_lock,
                   last_errno, last_error, backend_locks, last_granted, pc>>

\* The engine stores into a region through the pointer shm_map handed out.
\* It writes the WAL index only while it holds a slot in Exclusive mode.
engine_write(f, region, v) ==
    /\ pc[f].state = "idle"
    /\ wal_index[f].present /\ ~wal_index[f].readonly
    /\ HasExclusive(wal_index_locks[f])
    /\ region \in DOMAIN wal_index_regions[f]
    /\ wal_index_regions[f][region].data # v
    /\ wal_index_regions' = [wal_index_regions EXCEPT ![f][region].data = v]
    /\ UNCHANGED <<open_vars, lock_kind_vars, s3_vars, barrier_pc, io_vars, wal_enabled, backend_faulty, backend_syncs, wal_index, wal_index_locks, has_exclusive_lock,
                   last_errno, last_error, backend_regions, backend_locks,
                   last_granted, pc>>

\* ---------------------------------------------------------- vfs::open

\* The names backend.temporary_name may return, and a null p_file.
TempNames == {"tmp0", "tmp1"}
NullFile == "<null file>"

\* What backend.open and backend.exists may answer: Ok or the ErrorKind.
OpenResults ==
    IF backend_faulty THEN {"Ok", "PermissionDenied", "NotFound", "Other"}
    ELSE {"Ok"}

ExistsResults ==
    IF backend_faulty THEN {"true", "false", "Err"} ELSE {"true", "false"}

\* One backend call of the open path, as it appears in a call trace.
VfsCall(op, name, opts, res) ==
    [op |-> op, name |-> name, opts |-> opts, res |-> res]

\* A variant of the test with the negation dropped.
TemporaryRefusedWithFlag(z_name, opts) == z_name = NullName /\ opts.delete_on_close

\* `z_name.is_null() && !opts.delete_on_close`.
TemporaryRefused(z_name, opts) == z_name = NullName /\ ~opts.delete_on_close

\* The guard of the readonly-directory arm up to its call of exists.
AsksExists(res, opts) ==
    /\ res = "PermissionDenied"
    /\ opts.kind \in {"SuperJournal", "MainJournal", "Wal"}
    /\ opts.access \in {"Create", "CreateNew"}

\* A variant that reads the answer upside down.
FileExistsNegated(answer) == answer # "true"

\* `state.vfs.exists(&name).unwrap_or(false)`.
FileExists(answer) == answer = "true"

\* The guard of the arm that tries again as readonly.
DowngradesAccess(res, opts) == res = "PermissionDenied" /\ opts.access # "Read"

\* A variant of the retry that asks for the same access again.
DowngradedSame(opts) == opts

\* `opts.access = OpenAccess::Read`.
Downgraded(opts) == [opts EXCEPT !.access = "Read"]

\* A variant of the arm without its test of the access.
OpenIoErrAnyAccess(res, opts) == res = "Other"

\* The guard of the arm for "e.g. tried to open a directory".
OpenIoErr(res, opts) == res = "Other" /\ opts.access = "Read"

\* powersafe_overwrite: true unless the URI parameter psow of a named file
\* opened with SQLITE_OPEN_URI is false.
PowersafeOverwrite(z_name, flags, uri_psow) ==
    ~(HasBit(flags, SQLITE_OPEN_URI) /\ z_name # NullName /\ ~uri_psow)

\* vfs::open: every way the call can run, with what it returns (ret), the
\* error it records (err), its backend calls in order and, when it
\* initializes the payload (init), what it puts there and in *p_out_flags.
OpenOutcomes(z_name, flags, p_file, uri_psow) ==
    LET opts == OpenOptions_from_flags(flags)
        refuse(ret, err, calls) ==
            [ret |-> ret, err |-> err, calls |-> calls, init |-> FALSE,
             name |-> NullName, file |-> NoOptions, out_flags |-> 0,
             delete_on_close |-> FALSE, powersafe_overwrite |-> FALSE]
        done(name, final, calls) ==
            [ret |-> "SQLITE_OK", err |-> "none", calls |-> calls, init |-> TRUE,
             name |-> name, file |-> final,
             out_flags |-> OpenOptions_to_flags(final),
             delete_on_close |-> final.delete_on_close,
             powersafe_overwrite |-> PowersafeOverwrite(z_name, flags, uri_psow)]
        named(name) ==
            IF z_name = NullName
            THEN <<VfsCall("temporary_name", name, NoOptions, name)>>
            ELSE <<>>
        Arms(name, res, calls, missing) ==
            IF missing
            THEN {refuse("SQLITE_READONLY_DIRECTORY", res, calls)}
            ELSE IF DowngradesAccess(res, opts)
            THEN {LET again == calls \o <<VfsCall("open", name, Downgraded(opts), retry)>>
                  IN  IF retry = "Ok"
                      THEN done(name, Downgraded(opts), again)
                      ELSE refuse("SQLITE_CANTOPEN", res, again)
                  : retry \in OpenResults}
            ELSE IF OpenIoErr(res, opts)
            THEN {refuse("SQLITE_IOERR", res, calls)}
            ELSE {refuse("SQLITE_CANTOPEN", res, calls)}
        Answered(name, res) ==
            LET calls == named(name) \o <<VfsCall("open", name, opts, res)>>
            IN  IF res = "Ok" THEN {done(name, opts, calls)}
                ELSE IF AsksExists(res, opts)
                THEN UNION {Arms(name, res,
                                 calls \o <<VfsCall("exists", name, NoOptions, answer)>>,
                                 ~FileExists(answer))
                            : answer \in ExistsResults}
                ELSE Arms(name, res, calls, FALSE)
    IN  IF z_name = BadName
        THEN {refuse("SQLITE_CANTOPEN", "database must be valid utf8", <<>>)}
        ELSE IF ~opts.some
        THEN {refuse("SQLITE_CANTOPEN", "invalid open flags", <<>>)}
        ELSE IF TemporaryRefused(z_name, opts)
        THEN {refuse("SQLITE_CANTOPEN",
                     "delete on close expected for temporary database", <<>>)}
        ELSE IF p_file = NullFile
        THEN {refuse("SQLITE_CANTOPEN", "invalid file pointer", <<>>)}
        ELSE UNION {Answered(name, res)
                    : name \in (IF z_name = NullName THEN TempNames ELSE {z_name}),
                      res \in OpenResults}

\* vfs::open.  State::set_last_error records in the shared slot only; a
\* successful open writes the whole FileExt and counts next_id up.
open(p_file, z_name, flags, p_out_flags, uri_psow) ==
    /\ next_id < MaxOpens
    /\ \E out \in OpenOutcomes(z_name, flags, p_file, uri_psow) :
        /\ IF out.init
           THEN /\ payload' = [payload EXCEPT ![p_file] =
                                   FileExt(out.name, out.file, out.delete_on_close,
                                           next_id, out.powersafe_overwrite)]
                /\ out_flags' = IF p_out_flags
                                THEN [out_flags EXCEPT ![p_file] = out.out_flags]
                                ELSE out_flags
                /\ next_id' = next_id + 1
                /\ wal_index' = [wal_index EXCEPT ![p_file] = NoIndex]
                /\ wal_index_regions' = [wal_index_regions EXCEPT ![p_file] = Empty]
                /\ wal_index_locks' = [wal_index_locks EXCEPT ![p_file] = Empty]
                /\ has_exclusive_lock' = [has_exclusive_lock EXCEPT ![p_file] = FALSE]
                /\ last_errno' = [last_errno EXCEPT ![p_file] = "SQLITE_OK"]
                /\ chunk_size' = [chunk_size EXCEPT ![p_file] = NoChunk]
                /\ persist_wal' = [persist_wal EXCEPT ![p_file] = FALSE]
           ELSE UNCHANGED <<payload, out_flags, next_id, wal_index, wal_index_regions,
                            wal_index_locks, has_exclusive_lock, last_errno,
                            chunk_size, persist_wal>>
        /\ last_error' = IF out.err = "none" THEN last_error
                         ELSE [set |-> TRUE, code |-> out.ret, diag |-> out.err]
    /\ UNCHANGED <<wal_enabled, backend_faulty, backend_syncs, backend_regions, backend_locks,
                   last_granted, pc, arg_flags, arg_opts, lock_kind_vars, s3_vars, barrier_pc,
                   backend_len, p_arg>>

\* ------------------------------------------------------------- io::close

\* What backend.delete may answer.
DeleteResults == IF backend_faulty THEN {"Ok", "NotFound", "Other"} ELSE {"Ok"}

\* An entry point that panicked or ran into memory it must not touch: the
\* process ends inside the call.
Aborted == [ret |-> "abort", err |-> "none", calls |-> <<>>]

\* What `f.ext.assume_init_mut()` reads: the payload, or whatever the memory
\* of a slot without one holds.
ExtRead(f) ==
    IF payload[f].init THEN {payload[f]}
    ELSE {[Uninit EXCEPT !.db_name = n, !.delete_on_close = d]
          : n \in Names \cup TempNames, d \in BOOLEAN}

\* io::close, had it deleted every file it closes.
DeletesOnCloseAlways(ext) == TRUE

\* io::close deletes the file when the payload says so.
DeletesOnClose(ext) == ext.delete_on_close

\* io::close: every way the call can run; `destroyed` tells whether it got
\* as far as replacing the payload by MaybeUninit::uninit().  Behind a null
\* p_file there is nothing to close.
CloseOutcomes(f) ==
    IF f = NullFile
    THEN {[ret |-> "SQLITE_OK", err |-> "none", calls |-> <<>>,
           destroyed |-> FALSE]}
    ELSE
    UNION {IF DeletesOnClose(ext)
           THEN {LET calls == <<VfsCall("delete", ext.db_name, NoOptions, res)>>
                 IN  IF res = "Ok"
                     THEN [ret |-> "SQLITE_OK", err |-> "none", calls |-> calls,
                           destroyed |-> TRUE]
                     ELSE [ret |-> "SQLITE_DELETE", err |-> res, calls |-> calls,
                           destroyed |-> FALSE]
                 : res \in DeleteResults}
           ELSE {[ret |-> "SQLITE_OK", err |-> "none", calls |-> <<>>,
                  destroyed |-> TRUE]}
           : ext \in ExtRead(f)}
    \cup (IF payload[f].init THEN {}
          ELSE {[ret |-> Aborted.ret, err |-> "none", calls |-> <<>>,
                 destroyed |-> FALSE]})

\* io::close.  Dropping the FileExt drops its WAL index, maps and flags.
close(f) ==
    /\ f # NullFile => pc[f] = Idle
    /\ \E out \in CloseOutcomes(f) :
        IF out.destroyed
        THEN /\ payload' = [payload EXCEPT ![f] = Uninit]
             /\ wal_index' = [wal_index EXCEPT ![f] = NoIndex]
             /\ wal_index_regions' = [wal_index_regions EXCEPT ![f] = Empty]
             /\ wal_index_locks' = [wal_index_locks EXCEPT ![f] = Empty]
             /\ has_exclusive_lock' = [has_exclusive_lock EXCEPT ![f] = FALSE]
             /\ last_errno' = [last_errno EXCEPT ![f] = "SQLITE_OK"]
             /\ chunk_size' = [chunk_size EXCEPT ![f] = NoChunk]
             /\ persist_wal' = [persist_wal EXCEPT ![f] = FALSE]
             /\ UNCHANGED last_error
        ELSE /\ Record(f, out.ret, out.err)
             /\ UNCHANGED <<payload, wal_index, wal_index_regions, wal_index_locks,
                            has_exclusive_lock, chunk_size, persist_wal>>
    /\ UNCHANGED <<wal_enabled, backend_faulty, backend_syncs, backend_regions, backend_locks,
                   last_granted, pc, out_flags, next_id, arg_flags, arg_opts,
                   lock_kind_vars, s3_vars, barrier_pc, backend_len, p_arg>>

\* ---------------------------------------------------- plain file methods

\* What a call of the backend handle may answer: Ok, or one of the errors
\* in `errs` when the backend of this run fails at all.
HandleResults(errs) == IF backend_faulty THEN {"Ok"} \cup errs ELSE {"Ok"}

\* One call of the backend handle, in a trace: its integer arguments in order.
HandleCall(op, args, res) == [op |-> op, args |-> args, res |-> res]

\* The offsets and the buffer lengths the engine reads and writes with.
Offsets == 0 .. MaxLen
Amounts == 1 .. MaxLen

\* io::read: the status for each answer of read_exact_at.
ReadStatus(res) ==
    CASE res = "Ok" -> "SQLITE_OK"
      [] res = "UnexpectedEof" -> "SQLITE_IOERR_SHORT_READ"
      [] OTHER -> "SQLITE_IOERR_READ"

\* io::read, had it called set_last_error for every failure.
ReadRecordsEof(res) == res # "Ok"

\* io::read returns before set_last_error when the kind is UnexpectedEof.
ReadRecords(res) == res \notin {"Ok", "UnexpectedEof"}

\* io::read: every way the call can run.
ReadOutcomes(f, i_amt, i_ofst) ==
    {[ret |-> ReadStatus(res),
      err |-> IF ReadRecords(res) THEN res ELSE "none",
      calls |-> <<HandleCall("read_exact_at", <<i_amt, i_ofst>>, res)>>]
     : res \in HandleResults({"UnexpectedEof", "Other"})}

\* io::read.  The bytes go to the engine's buffer, which is not modelled.
read(f, i_amt, i_ofst) ==
    /\ payload[f].init
    /\ \E out \in ReadOutcomes(f, i_amt, i_ofst) : Record(f, out.ret, out.err)
    /\ UNCHANGED <<open_vars, lock_kind_vars, s3_vars, barrier_pc, io_vars, wal_enabled, backend_faulty, backend_syncs,
                   wal_index, wal_index_regions, wal_index_locks,
                   has_exclusive_lock, backend_regions, backend_locks,
                   last_granted, pc>>

\* io::write: the status for each answer of write_all_at.
WriteStatus(res) ==
    CASE res = "Ok" -> "SQLITE_OK"
      [] res = "WriteZero" -> "SQLITE_FULL"
      [] OTHER -> "SQLITE_IOERR_WRITE"

\* io::write returns before set_last_error when the kind is WriteZero.
WriteRecords(res) == res \notin {"Ok", "WriteZero"}

\* The length of the file after write_all_at wrote i_amt bytes at i_ofst.
LenAfterWrite(len, i_amt, i_ofst) ==
    IF i_ofst + i_amt > len THEN i_ofst + i_amt ELSE len

\* io::write: every way the call can run.
WriteOutcomes(f, i_amt, i_ofst) ==
    {[ret |-> WriteStatus(res),
      err |-> IF WriteRecords(res) THEN res ELSE "none",
      calls |-> <<HandleCall("write_all_at", <<i_amt, i_ofst>>, res)>>,
      len |-> IF res = "Ok" THEN LenAfterWrite(backend_len[f], i_amt, i_ofst)
              ELSE backend_len[f]]
     : res \in HandleResults({"WriteZero", "Other"})}

\* io::write.
write(f, i_amt, i_ofst) ==
    /\ payload[f].init
    /\ \E out \in WriteOutcomes(f, i_amt, i_ofst) :
        /\ Record(f, out.ret, out.err)
        /\ backend_len' = [backend_len EXCEPT ![f] = out.len]
    /\ UNCHANGED <<open_vars, lock_kind_vars, s3_vars, barrier_pc, chunk_size, p_arg, persist_wal,
                   wal_enabled, backend_faulty, backend_syncs, wal_index, wal_index_regions,
                   wal_index_locks, has_exclusive_lock, backend_regions,
                   backend_locks, last_granted, pc>>

\* Rounding down to a multiple of c, where the code rounds up.
RoundDown(n, c) == (n \div c) * c

\* `((n + c - 1) / c) * c` in unsigned arithmetic, for c > 0.
RoundUp(n, c) == ((n + c - 1) \div c) * c

\* The size io::truncate and SIZE_HINT hand to set_len.
ChunkedSize(chunk, size) ==
    IF chunk.some THEN RoundUp(size, chunk.size) ELSE size

\* The division by the chunk size panics when Some(0) is stored.
DividesByZero(chunk) == chunk.some /\ chunk.size = 0

\* io::truncate: every way the call can run.
TruncateOutcomes(f, size) ==
    IF DividesByZero(chunk_size[f])
    THEN {[ret |-> Aborted.ret, err |-> Aborted.err, calls |-> Aborted.calls,
           len |-> backend_len[f]]}
    ELSE LET n == ChunkedSize(chunk_size[f], size)
         IN  {[ret |-> IF res = "Ok" THEN "SQLITE_OK" ELSE "SQLITE_IOERR_TRUNCATE",
               err |-> IF res = "Ok" THEN "none" ELSE res,
               calls |-> <<HandleCall("set_len", <<n>>, res)>>,
               len |-> IF res = "Ok" THEN n ELSE backend_len[f]]
              : res \in HandleResults({"Other"})}

\* io::truncate.
truncate(f, size) ==
    /\ payload[f].init
    /\ \E out \in TruncateOutcomes(f, size) :
        /\ Record(f, out.ret, out.err)
        /\ backend_len' = [backend_len EXCEPT ![f] = out.len]
    /\ UNCHANGED <<open_vars, lock_kind_vars, s3_vars, barrier_pc, chunk_size, p_arg, persist_wal,
                   wal_enabled, backend_faulty, backend_syncs, wal_index, wal_index_regions,
                   wal_index_locks, has_exclusive_lock, backend_regions,
                   backend_locks, last_granted, pc>>

\* io::sync: `flags & SQLITE_SYNC_DATAONLY > 0` goes to the backend.
SyncOutcomes(f, data_only) ==
    {[ret |-> IF res = "Ok" THEN "SQLITE_OK" ELSE "SQLITE_IOERR_FSYNC",
      err |-> IF res = "Ok" THEN "none" ELSE res,
      calls |-> <<HandleCall("sync", <<IF data_only THEN 1 ELSE 0>>, res)>>]
     : res \in HandleResults({"Other"})}

\* io::sync.
sync(f, data_only) ==
    /\ payload[f].init
    /\ \E out \in SyncOutcomes(f, data_only) : Record(f, out.ret, out.err)
    /\ UNCHANGED <<open_vars, lock_kind_vars, s3_vars, barrier_pc, io_vars, wal_enabled, backend_faulty, backend_syncs,
                   wal_index, wal_index_regions, wal_index_locks,
                   has_exclusive_lock, backend_regions, backend_locks,
                   last_granted, pc>>

\* `.and_then(|v| { p.as_mut().ok_or_else(null_ptr_error)?; ... })`: the
\* error of the backend call, or the null pointer error after its success.
AndThenWrite(res, p_null) ==
    IF res # "Ok" THEN res ELSE IF p_null THEN "NullPtr" ELSE "none"

\* io::file_size: every way the call can run; `wrote` tells whether the
\* size went through p_size.
FileSizeOutcomes(f, p_null) ==
    {LET err == AndThenWrite(res, p_null)
     IN  [ret |-> IF err = "none" THEN "SQLITE_OK" ELSE "SQLITE_IOERR_FSTAT",
          err |-> err,
          calls |-> <<HandleCall("size", <<>>, res)>>,
          wrote |-> err = "none",
          val |-> backend_len[f]]
     : res \in HandleResults({"Other"})}

\* io::file_size.
file_size(f, p_null) ==
    /\ payload[f].init
    /\ \E out \in FileSizeOutcomes(f, p_null) :
        /\ Record(f, out.ret, out.err)
        /\ p_arg' = IF out.wrote THEN [p_arg EXCEPT !.val = out.val] ELSE p_arg
    /\ UNCHANGED <<open_vars, lock_kind_vars, s3_vars, barrier_pc, chunk_size, backend_len, persist_wal,
                   wal_enabled, backend_faulty, backend_syncs, wal_index, wal_index_regions,
                   wal_index_locks, has_exclusive_lock, backend_regions,
                   backend_locks, last_granted, pc>>

\* `b as i32`.
BoolInt(b) == IF b THEN 1 ELSE 0

\* What backend.reserved() may answer.
ReservedResults == {"true", "false"} \cup (IF backend_faulty THEN {"Other"} ELSE {})

\* The status the engine's interface names for a failed xCheckReservedLock.
CheckReservedFailureNamed == "SQLITE_IOERR_CHECKRESERVEDLOCK"

\* The status io::check_reserved_lock hands to set_last_error.
CheckReservedFailure == "SQLITE_IOERR_UNLOCK"

\* io::check_reserved_lock: every way the call can run.
CheckReservedLockOutcomes(f, p_null) ==
    {LET err == IF res = "Other" THEN res
                ELSE IF p_null THEN "NullPtr" ELSE "none"
     IN  [ret |-> IF err = "none" THEN "SQLITE_OK" ELSE CheckReservedFailure,
          err |-> err,
          calls |-> <<HandleCall("reserved", <<>>, res)>>,
          wrote |-> err = "none",
          val |-> BoolInt(res = "true")]
     : res \in ReservedResults}

\* io::check_reserved_lock.
check_reserved_lock(f, p_null) ==
    /\ payload[f].init
    /\ \E out \in CheckReservedLockOutcomes(f, p_null) :
        /\ Record(f, out.ret, out.err)
        /\ p_arg' = IF out.wrote THEN [p_arg EXCEPT !.val = out.val] ELSE p_arg
    /\ UNCHANGED <<open_vars, lock_kind_vars, s3_vars, barrier_pc, chunk_size, backend_len, persist_wal,
                   wal_enabled, backend_faulty, backend_syncs, wal_index, wal_index_regions,
                   wal_index_locks, has_exclusive_lock, backend_regions,
                   backend_locks, last_granted, pc>>

\* The opcodes of file_control: the ones with code behind them, one of those
\* answered OK without any (SYNC), one of those answered NOTFOUND (PRAGMA)
\* and one the match does not name.
FcntlOps ==
    {"SQLITE_FCNTL_LOCKSTATE", "SQLITE_FCNTL_LAST_ERRNO", "SQLITE_FCNTL_SIZE_HINT",
     "SQLITE_FCNTL_CHUNK_SIZE", "SQLITE_FCNTL_PERSIST_WAL",
     "SQLITE_FCNTL_VFSNAME", "SQLITE_FCNTL_POWERSAFE_OVERWRITE",
     "SQLITE_FCNTL_TEMPFILENAME", "SQLITE_FCNTL_TRACE", "SQLITE_FCNTL_HAS_MOVED",
     "SQLITE_FCNTL_SYNC", "SQLITE_FCNTL_PRAGMA", "unknown"}

\* `state.vfs_name`: the name the VFS was registered under.
VfsName == "vfs"

\* The integers the engine passes behind p_arg.
ArgVals == -1 .. MaxLen

\* file_control when it touches nothing: the engine's integer holds what the
\* engine put there.
FcntlKeep(f, arg) ==
    [ret |-> "SQLITE_OK", err |-> "none", calls |-> <<>>,
     chunk |-> chunk_size[f], len |-> backend_len[f],
     psow |-> payload[f].powersafe_overwrite, persist |-> persist_wal[f],
     out |-> [p_arg EXCEPT !.val = arg]]

\* SIZE_HINT leaves the file alone when it is at least as long as the hint.
SizeHintSatisfiedInclusive(current, size_hint) == current >= size_hint

\* SIZE_HINT: `if current > size_hint { return SQLITE_OK }`.
SizeHintSatisfied(current, size_hint) == current > size_hint

\* file_control(SQLITE_FCNTL_SIZE_HINT).
SizeHintOutcomes(f, p_null, arg) ==
    LET keep == FcntlKeep(f, arg)
    IN  IF p_null \/ arg < 0
        THEN {[keep EXCEPT !.ret = "SQLITE_NOTFOUND", !.err = "expect size hint arg"]}
        ELSE UNION {
            LET asked == <<HandleCall("size", <<>>, res)>>
            IN  IF res # "Ok"
                THEN {[keep EXCEPT !.ret = "SQLITE_ERROR", !.err = res,
                                   !.calls = asked]}
                ELSE IF SizeHintSatisfied(backend_len[f], arg)
                THEN {[keep EXCEPT !.calls = asked]}
                ELSE IF DividesByZero(chunk_size[f])
                THEN {[keep EXCEPT !.ret = Aborted.ret, !.calls = asked]}
                ELSE LET n == ChunkedSize(chunk_size[f], arg)
                     IN  {[keep EXCEPT
                              !.ret = IF set = "Ok" THEN "SQLITE_OK"
                                      ELSE "SQLITE_IOERR_TRUNCATE",
                              !.err = IF set = "Ok" THEN "none" ELSE set,
                              !.calls = Append(asked, HandleCall("set_len", <<n>>, set)),
                              !.len = IF set = "Ok" THEN n ELSE @]
                          : set \in HandleResults({"Other"})}
            : res \in HandleResults({"Other"})}

\* file_control(SQLITE_FCNTL_CHUNK_SIZE): any usize is stored, 0 included.
ChunkSizeOutcomes(f, p_null, arg) ==
    LET keep == FcntlKeep(f, arg)
    IN  IF p_null \/ arg < 0
        THEN {[keep EXCEPT !.ret = "SQLITE_NOTFOUND", !.err = "expect chunk_size arg"]}
        ELSE {LET told == <<HandleCall("set_chunk_size", <<arg>>, res)>>
              IN  IF res = "Ok"
                  THEN [keep EXCEPT !.calls = told, !.chunk = SomeChunk(arg)]
                  ELSE [keep EXCEPT !.ret = "SQLITE_ERROR", !.err = res,
                                    !.calls = told]
              : res \in HandleResults({"Other"})}

\* `*p_arg == 1`.
FlagFromArg(arg) == arg = 1

\* file_control: every way the call can run.  VFSNAME and TEMPFILENAME store
\* the address of a string through p_arg; TRACE reads the string behind
\* p_arg with CStr::from_ptr, which a null p_arg leaves undefined.
FileControlOutcomes(f, op, p_null, arg) ==
    LET keep == FcntlKeep(f, arg)
    IN  CASE op = "SQLITE_FCNTL_LOCKSTATE" ->
               {LET asked == <<HandleCall("current_lock", <<>>, res)>>
                IN  IF res = "Other"
                    THEN [keep EXCEPT !.ret = "SQLITE_ERROR", !.err = res,
                                      !.calls = asked]
                    ELSE [keep EXCEPT !.calls = asked, !.out.val = to_i32(res)]
                : res \in LockKind \cup (IF backend_faulty THEN {"Other"} ELSE {})}
          [] op = "SQLITE_FCNTL_LAST_ERRNO" ->
               {[keep EXCEPT !.out.errno = last_errno[f]]}
          [] op = "SQLITE_FCNTL_SIZE_HINT" -> SizeHintOutcomes(f, p_null, arg)
          [] op = "SQLITE_FCNTL_CHUNK_SIZE" -> ChunkSizeOutcomes(f, p_null, arg)
          [] op = "SQLITE_FCNTL_PERSIST_WAL" ->
               {IF p_null THEN keep
                ELSE IF arg < 0 THEN [keep EXCEPT !.out.val = BoolInt(persist_wal[f])]
                ELSE [keep EXCEPT !.persist = FlagFromArg(arg)]}
          [] op = "SQLITE_FCNTL_VFSNAME" ->
               {IF p_null THEN keep ELSE [keep EXCEPT !.out.name = VfsName]}
          [] op = "SQLITE_FCNTL_POWERSAFE_OVERWRITE" ->
               {IF p_null THEN keep
                ELSE IF arg < 0
                THEN [keep EXCEPT !.out.val = BoolInt(payload[f].powersafe_overwrite)]
                ELSE [keep EXCEPT !.psow = FlagFromArg(arg)]}
          [] op = "SQLITE_FCNTL_TEMPFILENAME" ->
               IF p_null THEN {keep}
               ELSE {[keep EXCEPT
                         !.calls = <<VfsCall("temporary_name", name, NoOptions, name)>>,
                         !.out.name = name]
                     : name \in TempNames}
          [] op = "SQLITE_FCNTL_TRACE" ->
               IF p_null THEN {keep, [keep EXCEPT !.ret = Aborted.ret]}
               ELSE {keep}
          [] op = "SQLITE_FCNTL_HAS_MOVED" ->
               {LET asked == <<HandleCall("moved", <<>>, res)>>
                IN  IF res = "Other"
                    THEN [keep EXCEPT !.ret = "SQLITE_ERROR", !.err = res,
                                      !.calls = asked]
                    ELSE [keep EXCEPT !.calls = asked, !.out.val = BoolInt(res = "true")]
                : res \in {"true", "false"}
                          \cup (IF backend_faulty THEN {"Other"} ELSE {})}
          [] op = "SQLITE_FCNTL_SYNC" -> {keep}
          [] OTHER -> {[keep EXCEPT !.ret = "SQLITE_NOTFOUND"]}

\* io::file_control.  Nothing is written through a null p_arg.
file_control(f, op, p_null, arg) ==
    /\ payload[f].init
    /\ \E out \in FileControlOutcomes(f, op, p_null, arg) :
        /\ IF out.ret = Aborted.ret
           THEN UNCHANGED <<last_error, last_errno>>
           ELSE Record(f, out.ret, out.err)
        /\ chunk_size' = [chunk_size EXCEPT ![f] = out.chunk]
        /\ backend_len' = [backend_len EXCEPT ![f] = out.len]
        /\ persist_wal' = [persist_wal EXCEPT ![f] = out.persist]
        /\ payload' = [payload EXCEPT ![f].powersafe_overwrite = out.psow]
        /\ p_arg' = IF p_null THEN p_arg ELSE out.out
    /\ UNCHANGED <<out_flags, next_id, arg_flags, arg_opts, lock_kind_vars, s3_vars, barrier_pc,
                   wal_enabled, backend_faulty, backend_syncs, wal_index, wal_index_regions,
                   wal_index_locks, has_exclusive_lock, backend_regions,
                   backend_locks, last_granted, pc>>

\* The one capability bit the adapter ever reports.
SQLITE_IOCAP_POWERSAFE_OVERWRITE == 4096

\* io::device_characteristics, had it reported the bit for every file.
DeviceCharacteristicsAlways(f) == SQLITE_IOCAP_POWERSAFE_OVERWRITE

\* io::device_characteristics: the integer it returns.
DeviceCharacteristics(f) ==
    IF payload[f].powersafe_overwrite THEN SQLITE_IOCAP_POWERSAFE_OVERWRITE ELSE 0

\* io::device_characteristics reads the flag and writes nothing.
device_characteristics(f) ==
    /\ payload[f].init
    /\ DeviceCharacteristics(f) \in {0, SQLITE_IOCAP_POWERSAFE_OVERWRITE}
    /\ UNCHANGED vars

\* ----------------------------------------------------------- vfs::delete

\* What the engine passes for p_vfs: the registered VFS.
NullVfs == "<null vfs>"

\* vfs::delete, had it treated a missing file like any other failure.
DeleteStatusFlat(res) ==
    IF res = "Ok" THEN "SQLITE_OK" ELSE "SQLITE_DELETE"

\* vfs::delete: the status for each answer of Vfs::delete.
DeleteStatus(res) ==
    CASE res = "Ok" -> "SQLITE_OK"
      [] res = "NotFound" -> "SQLITE_IOERR_DELETE_NOENT"
      [] OTHER -> "SQLITE_DELETE"

\* vfs::delete: every way the call can run.
DeleteOutcomes(p_vfs, z_path) ==
    IF p_vfs = NullVfs
    THEN {[ret |-> "SQLITE_DELETE", err |-> "none", calls |-> <<>>]}
    ELSE IF z_path = BadName
    THEN {[ret |-> "SQLITE_ERROR",
           err |-> "delete failed: database must be valid utf8", calls |-> <<>>]}
    ELSE {[ret |-> DeleteStatus(res),
           err |-> IF DeleteStatus(res) = "SQLITE_DELETE" THEN res ELSE "none",
           calls |-> <<VfsCall("delete", z_path, NoOptions, res)>>]
          : res \in DeleteResults}

\* vfs::delete.  State::set_last_error writes the shared slot only.
delete(p_vfs, z_path) ==
    /\ \E out \in DeleteOutcomes(p_vfs, z_path) :
        last_error' = IF out.err = "none" THEN last_error
                      ELSE [set |-> TRUE, code |-> out.ret, diag |-> out.err]
    /\ UNCHANGED <<open_vars, lock_kind_vars, s3_vars, barrier_pc, io_vars, wal_enabled, backend_faulty, backend_syncs,
                   wal_index, wal_index_regions, wal_index_locks,
                   has_exclusive_lock, last_errno, backend_regions, backend_locks,
                   last_granted, pc>>

\* ------------------------------------------------------------ vfs::access

\* The flags of access: the three the match names and one it does not.
AccessFlags == {"SQLITE_ACCESS_EXISTS", "SQLITE_ACCESS_READ",
                "SQLITE_ACCESS_READWRITE", "unknown"}

\* What Vfs::exists and Vfs::access may answer.
AccessResults == {"true", "false"} \cup (IF backend_faulty THEN {"Other"} ELSE {})

\* vfs::access: every way the call can run.  `wrote` and `val` are the store
\* through p_res_out.  A name that is no UTF-8 is answered OK with false and
\* flags the match does not name IOERR_ACCESS, neither of them recorded; an
\* Err of the backend and a null p_res_out go to set_last_error.
AccessOutcomes(p_vfs, z_path, flags, p_null) ==
    LET quiet == [ret |-> "SQLITE_OK", err |-> "none", calls |-> <<>>,
                  wrote |-> FALSE, val |-> 0]
    IN  IF p_vfs = NullVfs THEN {[quiet EXCEPT !.ret = "SQLITE_ERROR"]}
        ELSE IF z_path = BadName THEN {[quiet EXCEPT !.wrote = ~p_null]}
        ELSE IF flags = "unknown" THEN {[quiet EXCEPT !.ret = "SQLITE_IOERR_ACCESS"]}
        ELSE {LET asked == <<[op |-> IF flags = "SQLITE_ACCESS_EXISTS"
                                     THEN "exists" ELSE "access",
                              name |-> z_path,
                              write |-> flags = "SQLITE_ACCESS_READWRITE",
                              res |-> res]>>
              IN  IF res = "Other"
                  THEN [quiet EXCEPT !.ret = "SQLITE_IOERR_ACCESS", !.err = res,
                                     !.calls = asked]
                  ELSE IF p_null
                  THEN [quiet EXCEPT !.ret = "SQLITE_IOERR_ACCESS",
                                     !.err = "received null pointer",
                                     !.calls = asked]
                  ELSE [quiet EXCEPT !.calls = asked, !.wrote = TRUE,
                                     !.val = BoolInt(res = "true")]
              : res \in AccessResults}

\* vfs::access.  State::set_last_error writes the shared slot only.
access(p_vfs, z_path, flags, p_null) ==
    /\ \E out \in AccessOutcomes(p_vfs, z_path, flags, p_null) :
        /\ last_error' = IF out.err = "none" THEN last_error
                         ELSE [set |-> TRUE, code |-> out.ret, diag |-> out.err]
        /\ p_arg' = IF out.wrote THEN [p_arg EXCEPT !.val = out.val] ELSE p_arg
    /\ UNCHANGED <<open_vars, lock_kind_vars, s3_vars, barrier_pc, chunk_size,
                   backend_len, persist_wal, wal_enabled, backend_faulty,
                   backend_syncs, wal_index, wal_index_regions, wal_index_locks,
                   has_exclusive_lock, last_errno, backend_regions, backend_locks,
                   last_granted, pc>>

\* ----------------------------------------------------- vfs::full_pathname

\* `const MAX_PATH_LENGTH: usize = 512`.
MAX_PATH_LENGTH == 512

\* The lengths of the names Vfs::full_pathname answers with, and the sizes
\* of the buffer the engine brings for them.
PathLens == {1, MaxLen, MAX_PATH_LENGTH}
OutSizes == (0 .. MaxLen) \cup {MAX_PATH_LENGTH + 1}

\* `name.len() > n_out as usize || name.len() > MAX_PATH_LENGTH`, negated;
\* name is the path with its NUL.
PathFits(name_len, n_out) == ~(name_len > n_out \/ name_len > MAX_PATH_LENGTH)

\* What Vfs::full_pathname may answer.
FullPathnameResults == IF backend_faulty THEN {"Ok", "Other"} ELSE {"Ok"}

\* vfs::full_pathname: every way the call can run; `copied` is the number of
\* bytes written to z_out.
FullPathnameOutcomes(p_vfs, z_path, n_out) ==
    LET quiet == [ret |-> "SQLITE_OK", err |-> "none", calls |-> <<>>, copied |-> 0]
    IN  IF p_vfs = NullVfs THEN {[quiet EXCEPT !.ret = "SQLITE_ERROR"]}
        ELSE IF z_path = BadName
        THEN {[quiet EXCEPT !.ret = "SQLITE_ERROR",
                            !.err = "full_pathname failed: database must be valid utf8"]}
        ELSE {LET asked == <<VfsCall("full_pathname", z_path, NoOptions, res)>>
              IN  IF res # "Ok"
                  THEN [quiet EXCEPT !.ret = "SQLITE_ERROR", !.err = res,
                                     !.calls = asked]
                  ELSE IF has_nul
                  THEN [quiet EXCEPT !.ret = "SQLITE_ERROR",
                                     !.err = "name must not contain a nul byte",
                                     !.calls = asked]
                  ELSE IF ~PathFits(len + 1, n_out)
                  THEN [quiet EXCEPT !.ret = "SQLITE_CANTOPEN",
                                     !.err = "full pathname is too long",
                                     !.calls = asked]
                  ELSE [quiet EXCEPT !.calls = asked, !.copied = len + 1]
              : res \in FullPathnameResults, has_nul \in BOOLEAN, len \in PathLens}

\* vfs::full_pathname.  It writes the engine's buffer and, on a failure, the
\* shared slot.
full_pathname(p_vfs, z_path, n_out) ==
    /\ \E out \in FullPathnameOutcomes(p_vfs, z_path, n_out) :
        /\ out.copied <= n_out
        /\ last_error' = IF out.err = "none" THEN last_error
                         ELSE [set |-> TRUE, code |-> out.ret, diag |-> out.err]
    /\ UNCHANGED <<open_vars, lock_kind_vars, s3_vars, barrier_pc, io_vars,
                   wal_enabled, backend_faulty, backend_syncs, wal_index,
                   wal_index_regions, wal_index_locks, has_exclusive_lock,
                   last_errno, backend_regions, backend_locks, last_granted, pc>>

\* --------------------------------------------------- vfs::get_last_error

\* The sizes of the engine's message buffer, and the lengths of a stored
\* error's text with its terminating NUL (`msg.to_bytes_with_nul().len()`).
ByteCounts == 0 .. MaxLen
MsgLens == 1 .. MaxLen

\* `if msg.len() > n_byte as usize { return SQLITE_ERROR }`, negated.
Fits(msg_len, n_byte) == msg_len <= n_byte

\* vfs::get_last_error: the status returned and the number of bytes copied
\* to z_err_msg, for a stored error whose text takes msg_len bytes and has
\* an interior NUL or not.
GetLastError(p_vfs, slot, msg_len, has_nul, n_byte) ==
    IF p_vfs = NullVfs THEN [ret |-> "SQLITE_ERROR", copied |-> 0]
    ELSE IF ~slot.set THEN [ret |-> "SQLITE_OK", copied |-> 0]
    ELSE IF has_nul THEN [ret |-> "SQLITE_ERROR", copied |-> 0]
    ELSE IF ~Fits(msg_len, n_byte) THEN [ret |-> "SQLITE_ERROR", copied |-> 0]
    ELSE [ret |-> slot.code, copied |-> msg_len]

\* vfs::get_last_error: every way the call can run on the slot as it is.
GetLastErrorOutcomes(p_vfs, n_byte) ==
    {GetLastError(p_vfs, last_error, msg_len, has_nul, n_byte)
     : msg_len \in MsgLens, has_nul \in BOOLEAN}

\* vfs::get_last_error.  It reads the slot under the lock and writes the
\* engine's buffer only.
get_last_error(p_vfs, n_byte) ==
    /\ \E out \in GetLastErrorOutcomes(p_vfs, n_byte) : out.copied <= n_byte
    /\ UNCHANGED vars

\* ------------------------------------------------ S3FileLock (src/vfs.rs)

\* The adapter's files take no part in what the clients of the bucket do.
AdapterUnchanged ==
    UNCHANGED <<open_vars, lock_kind_vars, io_vars, wal_enabled, backend_faulty, backend_syncs,
                wal_index, wal_index_regions, wal_index_locks, has_exclusive_lock,
                last_errno, last_error, backend_regions, backend_locks,
                last_granted, pc, barrier_pc>>

\* One request of client c: what it leaves in the client and in the bucket.
Request(c, cl, bucket) ==
    /\ client' = [client EXCEPT ![c] = cl]
    /\ s3' = bucket
    /\ AdapterUnchanged

\* The client is about to make the request named `at`.
At(c, at) == client[c].pc.at = at

\* The client goes on to the request named `at`.
Goto(cl, at) == [cl EXCEPT !.pc.at = at]

\* Whether the client can draw n more identifiers.
CanDraw(cl, n) == cl.next_uuid + n - 1 <= MaxUuid

\* S3FileLock::request_lock begins: `let lock_uuid = Uuid::new_v4()`, then
\* the loop asks for the legal hold of the lock file.
EnterRequestLock(c, cl) ==
    [cl EXCEPT !.lock_uuid = Uuid(c, cl.next_uuid), !.next_uuid = @ + 1,
               !.pc.at = "get_object_legal_hold"]

\* S3FileLock::request_lock returns: `self.current_lock = Some(vect)`.  A
\* caller of the Lock trait holds the lock until it calls release_lock; the
\* four callers in Inner go on to read_metadata.
LeaveRequestLock(cl) ==
    [cl EXCEPT !.file_lock = cl.lock_uuid,
               !.pc.at = IF cl.pc.op = "lock" THEN "release_lock"
                         ELSE "read_metadata"]

\* The answers of get_object_legal_hold as request_lock takes them: no such
\* object is an Err; a version written without a legal hold is an Err or an
\* Ok without a status (the panic of line 150).
LegalHoldNext(obj) ==
    IF ~obj.exists THEN {"probe"}
    ELSE IF obj.hold = "Unset" THEN {"probe", "panic"}
    ELSE IF obj.hold = "Off" THEN {"put_uuid"}
    ELSE {"peek"}

\* request_lock: `self.s3.get_object_legal_hold()...send().await`.
get_object_legal_hold(c) ==
    /\ At(c, "get_object_legal_hold")
    /\ \E at \in LegalHoldNext(s3.lock_file) : Request(c, Goto(client[c], at), s3)

\* request_lock, the hold being Off: put_object of the identifier with the
\* legal hold On.  Nothing ties the put to the status read before.
put_uuid(c) ==
    /\ At(c, "put_uuid")
    /\ Request(c, Goto(client[c], "check"),
               [s3 EXCEPT !.lock_file = Object(UuidBody(client[c].lock_uuid), "On")])

\* `obj.body.bytes()` is Some: the SDK hands the body of a get_object answer
\* over in memory.  A body it streams has no bytes to look at; which of the
\* two a client gets is fixed by the SDK and its transport.
InMemory == ~s3.streamed

\* `bytes == lock_uuid.to_vec() && obj.object_lock_legal_hold_status == Some(On)`.
IsHeldBy(obj, lock_uuid) == obj.body = UuidBody(lock_uuid) /\ obj.hold = "On"

\* request_lock after its put: get_object, and the lock is taken when the
\* object is the one just written; panic!("1") otherwise, and panic!("2")
\* when the body has no bytes.
check(c) ==
    /\ At(c, "check")
    /\ Request(c, IF InMemory /\ IsHeldBy(s3.lock_file, client[c].lock_uuid)
                  THEN LeaveRequestLock(client[c])
                  ELSE Goto(client[c], "panic"), s3)

\* request_lock, the hold being On: get_object, and the lock is taken when
\* the object holds this call's identifier; otherwise sleep and ask again.
peek(c) ==
    /\ At(c, "peek")
    /\ Request(c, IF InMemory /\ IsHeldBy(s3.lock_file, client[c].lock_uuid)
                  THEN LeaveRequestLock(client[c])
                  ELSE Goto(client[c], "get_object_legal_hold"), s3)

\* request_lock after an Err of get_object_legal_hold: get_object tells
\* whether the lock file exists; it must not (the panic of line 196).
probe(c) ==
    /\ At(c, "probe")
    /\ Request(c, Goto(client[c], IF s3.lock_file.exists THEN "panic" ELSE "create"),
               s3)

\* request_lock creates the lock file: put_object of the identifier with the
\* legal hold On, and the lock is taken without a look at the result.
create(c) ==
    /\ At(c, "create")
    /\ Request(c, LeaveRequestLock(client[c]),
               [s3 EXCEPT !.lock_file = Object(UuidBody(client[c].lock_uuid), "On")])

\* A caller of the Lock trait asks for the lock.
request_lock(c) ==
    /\ At(c, "idle")
    /\ CanDraw(client[c], 1)
    /\ Request(c, EnterRequestLock(c, [client[c] EXCEPT
                       !.pc = [op |-> "lock", phase |-> "request", at |-> "idle"]]),
               s3)

\* Where release_lock returns to: the caller of the Lock trait is done;
\* request_write_lock sleeps and starts its loop again (line 465);
\* release_read_lock and release_write_lock return, and with them the call
\* of Inner (the unwrap of handle.rs 114 panics on their Err).
LeaveReleaseLock(c, cl) ==
    LET done == [cl EXCEPT !.file_lock = NoId]
    IN  CASE cl.pc.op = "lock" -> [done EXCEPT !.pc = AtRest]
          [] cl.pc.phase = "request" -> EnterRequestLock(c, done)
          [] cl.pc.phase = "failed" /\ cl.pc.op = "set_len" ->
                [done EXCEPT !.current_lock = NoId, !.pc.at = "panic"]
          [] OTHER -> [done EXCEPT !.current_lock = NoId, !.pc = AtRest,
                                   !.meta = MetadataNone, !.size = 0, !.bytes = <<>>]

\* S3FileLock::release_lock: put_object of an empty body with the legal hold
\* Off, then `self.current_lock = None`.
release_lock(c) ==
    /\ At(c, "release_lock")
    /\ client[c].pc.phase = "request" /\ client[c].pc.op # "lock"
            => CanDraw(client[c], 1)
    /\ Request(c, LeaveReleaseLock(c, client[c]),
               [s3 EXCEPT !.lock_file = Object(EmptyBody, "Off")])

\* ----------------------------------------------------- Inner (src/vfs.rs)

\* The calls that register as a reader (request_read_lock) and those that
\* register as the writer (request_write_lock).
Reads == {"read_exact_at", "get_database_size"}
Writes == {"write_at", "set_len"}

\* request_read_lock's closure ready_for_reader.
ready_for_reader(meta) ==
    CASE meta.kind = "None" -> TRUE
      [] meta.kind = "Writer" -> FALSE
      [] meta.kind = "Reader" -> meta.write_request = NoId

\* request_write_lock's closure ready_for_writer.
ready_for_writer(meta) ==
    CASE meta.kind = "None" -> TRUE
      [] meta.kind = "Writer" -> FALSE
      [] meta.kind = "Reader" -> meta.write_request = NoId

\* The arm of request_write_lock's if / else-if chain that the metadata
\* selects (lines 440-463): "wait" is the fall-through to release_lock.
WriteLockArm(meta, lock_uuid) ==
    IF ready_for_writer(meta) THEN "writer"
    ELSE IF meta.kind = "Reader"
    THEN IF meta.readers = {} /\ meta.write_request \in {NoId, lock_uuid}
         THEN "writer"
         ELSE IF meta.write_request = NoId THEN "write_request" ELSE "wait"
    ELSE "wait"

\* The Metadata a call hands to write_metadata, from the one it read.
MetadataToWrite(cl) ==
    CASE cl.pc.phase = "request" /\ cl.pc.op \in Reads ->
            MetadataReader((IF cl.meta.kind = "Reader" THEN cl.meta.readers ELSE {})
                           \cup {cl.rw_uuid}, NoId)
      [] cl.pc.phase = "request" /\ cl.pc.op \in Writes ->
            IF WriteLockArm(cl.meta, cl.rw_uuid) = "writer"
            THEN MetadataWriter(cl.rw_uuid)
            ELSE MetadataReader(cl.meta.readers, cl.rw_uuid)
      [] cl.pc.phase = "release" /\ cl.pc.op \in Reads ->
            MetadataReader(cl.meta.readers \ {cl.current_lock},
                           cl.meta.write_request)
      [] OTHER -> MetadataNone

\* request_read_lock or request_write_lock begins: `let lock_uuid =
\* Uuid::new_v4()`, then the loop calls metadata_lock.request_lock().
EnterInner(c, cl, op) ==
    EnterRequestLock(c, [cl EXCEPT !.rw_uuid = Uuid(c, cl.next_uuid),
                                   !.next_uuid = @ + 1,
                                   !.pc = [op |-> op, phase |-> "request",
                                           at |-> "idle"]])

\* Where a call goes after read_metadata, by its part and the Metadata read.
AfterReadMetadata(c, cl) ==
    CASE cl.pc.phase = "request" /\ cl.pc.op \in Reads ->
            IF ready_for_reader(cl.meta) THEN Goto(cl, "write_metadata")
            ELSE EnterRequestLock(c, cl)
      [] cl.pc.phase = "request" /\ cl.pc.op \in Writes ->
            IF WriteLockArm(cl.meta, cl.rw_uuid) = "wait"
            THEN Goto(cl, "release_lock")
            ELSE Goto(cl, "write_metadata")
      [] cl.pc.phase = "release" /\ cl.pc.op \in Reads ->
            IF cl.meta.kind = "Reader"
            THEN Goto(cl, IF cl.current_lock = NoId THEN "panic"
                          ELSE "write_metadata")
            ELSE [cl EXCEPT !.pc.phase = "failed", !.pc.at = "release_lock"]
      [] OTHER ->
            IF cl.meta.kind = "Writer" /\ cl.current_lock # NoId
               /\ cl.current_lock = cl.meta.writer
            THEN Goto(cl, "write_metadata")
            ELSE [cl EXCEPT !.pc.phase = "failed", !.pc.at = "release_lock"]

\* `if let Some(bytes) = obj.body.bytes() { deserialize } else { Ok(None) }`
ReadMetadata(body) == IF InMemory THEN Deserialize(body) ELSE MetadataNone

\* Inner::read_metadata: get_object of the lock file (the key is
\* metadata_lock.lock_file), decoded.  The lock file exists once a
\* request_lock has returned.
read_metadata(c) ==
    /\ At(c, "read_metadata")
    /\ s3.lock_file.exists
    /\ LET cl == [client[c] EXCEPT !.meta = ReadMetadata(s3.lock_file.body)]
       IN  /\ cl.pc.phase = "request" /\ cl.pc.op \in Reads
                /\ ~ready_for_reader(cl.meta) => CanDraw(cl, 1)
           /\ Request(c, AfterReadMetadata(c, cl), s3)

\* Where a call goes after write_metadata: request_read_lock and
\* request_write_lock break out of their loop, set `self.current_lock =
\* Some(lock_uuid)` and return to the call of Inner, still holding the
\* S3FileLock; release_read_lock and release_write_lock go on to
\* metadata_lock.release_lock().
AfterWriteMetadata(cl) ==
    IF cl.pc.phase = "request"
    THEN [cl EXCEPT !.current_lock = cl.rw_uuid,
                    !.pc.phase = "body",
                    !.pc.at = IF cl.pc.op = "write_at" THEN "put_object"
                              ELSE "get_object"]
    ELSE Goto(cl, "release_lock")

\* Inner::write_metadata: put_object of the serialized Metadata to the lock
\* file, the request naming no legal hold.
write_metadata(c) ==
    /\ At(c, "write_metadata")
    /\ Request(c, AfterWriteMetadata(client[c]),
               [s3 EXCEPT !.lock_file =
                    Object(Serialize(MetadataToWrite(client[c])), "Unset")])

\* `bytes.len() - size as usize` on usize: the subtraction has no result
\* when size is the larger (overflow panic in a debug build; a count near
\* 2^64 in a release build, which no Vec can take).
Underflows(len, size) == len < size

\* Handle::set_len, had it extended by `size - bytes.len()` zeros.
SetLenExtending(bytes, size) ==
    [panic |-> FALSE,
     bytes |-> IF Len(bytes) < size
               THEN bytes \o [i \in 1 .. size - Len(bytes) |-> 0]
               ELSE SubSeq(bytes, 1, size)]

\* Handle::set_len lines 99-103: the bytes it goes on to put, or the panic.
SetLen(bytes, size) ==
    IF Len(bytes) < size
    THEN [panic |-> Underflows(Len(bytes), size),
          bytes |-> bytes \o [i \in 1 .. Len(bytes) - size |-> 0]]
    ELSE [panic |-> FALSE, bytes |-> SubSeq(bytes, 1, size)]

\* The call of Inner or Handle goes on to its release_read_lock or
\* release_write_lock, which begins with metadata_lock.request_lock().
EnterRelease(c, cl) == EnterRequestLock(c, [cl EXCEPT !.pc.phase = "release"])

\* Handle::set_len, no object being stored under its key: get_object is an
\* Err and the `?` of handle.rs 93 returns it, after request_write_lock and
\* before put_object and release_write_lock.  The call is over; the writer's
\* registration and the lock on the lock file stay as they are.
ReturnErr(cl) ==
    [cl EXCEPT !.pc = AtRest, !.meta = MetadataNone, !.size = 0, !.bytes = <<>>]

\* The object the bucket holds under a key: the one under db_filename, which
\* read_exact_at and write_at name, or the one under the other name.
Stored(bucket, key) ==
    IF key = DbFilename THEN [exists |-> bucket.db_exists, bytes |-> bucket.db]
    ELSE [exists |-> bucket.obj_exists, bytes |-> bucket.obj]

\* The bucket with `bytes` stored as the object under a key.
Store(bucket, key, bytes) ==
    IF key = DbFilename THEN [bucket EXCEPT !.db = bytes, !.db_exists = TRUE]
    ELSE [bucket EXCEPT !.obj = bytes, !.obj_exists = TRUE]

\* The get_object between the two lock calls: the range of the database
\* (read_exact_at, key db_filename), the lock file (get_database_size), or
\* the whole object under the handle's obj_key, which set_len resizes.
get_object(c) ==
    /\ At(c, "get_object")
    /\ LET cl == client[c]
           found == Stored(s3, cl.obj_key)
           out == SetLen(found.bytes, cl.size)
       IN  IF cl.pc.op = "set_len"
           THEN Request(c, IF ~found.exists THEN ReturnErr(cl)
                           ELSE IF out.panic THEN Goto(cl, "panic")
                           ELSE [cl EXCEPT !.bytes = out.bytes,
                                           !.pc.at = "put_object"], s3)
           ELSE /\ CanDraw(cl, 1)
                /\ Request(c, EnterRelease(c, cl), s3)

\* put_object with write_offset_bytes(offset): the bucket appends when the
\* offset is the length of the object and refuses otherwise.
Appended(db, offset, data) == IF offset = Len(db) THEN db \o data ELSE db

\* The bucket after the put_object of a call.  set_len stores its bytes as
\* the object under the handle's obj_key.  write_at names db_filename and
\* appends to the object there is; with no object under the key a bucket
\* takes an append at offset 0 as the first write or refuses it, by its
\* kind, and refuses every other offset.
PutObject(bucket, cl) ==
    IF cl.pc.op = "set_len"
    THEN {Store(bucket, cl.obj_key, cl.bytes)}
    ELSE IF bucket.db_exists
    THEN {[bucket EXCEPT !.db = Appended(bucket.db, cl.size, cl.bytes)]}
    ELSE {bucket} \cup {[bucket EXCEPT !.db = cl.bytes, !.db_exists = TRUE]
                          : b \in IF cl.size = 0 THEN {TRUE} ELSE {}}

\* The put_object between the two lock calls: the data of write_at at its
\* offset, or the resized bytes of set_len.
put_object(c) ==
    /\ At(c, "put_object")
    /\ CanDraw(client[c], 1)
    /\ \E bucket \in PutObject(s3, client[c]) :
            Request(c, EnterRelease(c, client[c]), bucket)

\* The lengths and the data the calls are made with: a byte of data is 1, a
\* byte of padding 0.
Sizes == 0 .. MaxLen
Datas == {<<1>>}

\* Inner::read_exact_at.
read_exact_at(c) ==
    /\ At(c, "idle")
    /\ CanDraw(client[c], 2)
    /\ Request(c, EnterInner(c, client[c], "read_exact_at"), s3)

\* Inner::get_database_size.
get_database_size(c) ==
    /\ At(c, "idle")
    /\ CanDraw(client[c], 2)
    /\ Request(c, EnterInner(c, client[c], "get_database_size"), s3)

\* Inner::write_at.
write_at(c, offset, data) ==
    /\ At(c, "idle")
    /\ CanDraw(client[c], 2)
    /\ Request(c, EnterInner(c, [client[c] EXCEPT !.size = offset, !.bytes = data],
                             "write_at"), s3)

\* Handle::set_len.
set_len(c, size) ==
    /\ At(c, "idle")
    /\ CanDraw(client[c], 2)
    /\ Request(c, EnterInner(c, [client[c] EXCEPT !.size = size], "set_len"), s3)

\* ------------------------------------------------- converting open flags

\* A caller decodes the flags it holds.
from_flags_call ==
    /\ arg_opts' = OpenOptions_from_flags(arg_flags)
    /\ UNCHANGED <<wal_enabled, backend_faulty, backend_syncs, wal_index, wal_index_regions,
                   wal_index_locks, has_exclusive_lock, last_errno, last_error,
                   backend_regions, backend_locks, last_granted, pc, payload,
                   out_flags, next_id, arg_flags, lock_kind_vars, s3_vars, barrier_pc, io_vars>>

\* A caller encodes the options it holds.
to_flags_call ==
    /\ arg_opts.some
    /\ arg_flags' = OpenOptions_to_flags(arg_opts)
    /\ UNCHANGED <<wal_enabled, backend_faulty, backend_syncs, wal_index, wal_index_regions,
                   wal_index_locks, has_exclusive_lock, last_errno, last_error,
                   backend_regions, backend_locks, last_granted, pc, payload,
                   out_flags, next_id, arg_opts, lock_kind_vars, s3_vars, barrier_pc, io_vars>>

\* ------------------------------------------- converting lock levels

\* A caller decodes the lock code it holds into its first level; what it
\* knew about the order of its two levels is void.
from_i32_call ==
    /\ from_i32(arg_lock) # "Invalid"
    /\ arg_kinds' = <<from_i32(arg_lock), arg_kinds[2]>>
    /\ arg_cmp' = "Unset"
    /\ UNCHANGED <<open_vars, io_vars, s3_vars, barrier_pc, arg_lock, wal_enabled, backend_faulty, backend_syncs,
                   wal_index, wal_index_regions, wal_index_locks,
                   has_exclusive_lock, last_errno, last_error, backend_regions,
                   backend_locks, last_granted, pc>>

\* A caller encodes its second level.
to_i32_call ==
    /\ arg_lock' = to_i32(arg_kinds[2])
    /\ UNCHANGED <<open_vars, io_vars, s3_vars, barrier_pc, arg_kinds, arg_cmp, wal_enabled, backend_faulty, backend_syncs,
                   wal_index, wal_index_regions, wal_index_locks,
                   has_exclusive_lock, last_errno, last_error, backend_regions,
                   backend_locks, last_granted, pc>>

\* A caller compares its two levels, as tests::test_lock_order does.
partial_cmp_call ==
    /\ arg_cmp' = partial_cmp(arg_kinds[1], arg_kinds[2])
    /\ UNCHANGED <<open_vars, io_vars, s3_vars, barrier_pc, arg_lock, arg_kinds, wal_enabled, backend_faulty, backend_syncs,
                   wal_index, wal_index_regions, wal_index_locks,
                   has_exclusive_lock, last_errno, last_error, backend_regions,
                   backend_locks, last_granted, pc>>

\* ----------------------------------------------------- specifications

\* The arguments the engine passes to shm_lock: a range inside the slots.
ShmLockArgs ==
    {a \in Slots \X (1 .. MaxSlot + 1) \X ShmFlags : a[1] + a[2] <= MaxSlot + 1}

\* The file has a slot on record in Shared or Exclusive mode.
HoldsSlot(f) == \E s \in DOMAIN wal_index_locks[f] : wal_index_locks[f][s] # "None"

\* The engine unmaps only after it has given up the slots it took.
shm_unmap_released(f, delete_flags) == ~HoldsSlot(f) /\ shm_unmap(f, delete_flags)

\* One file driven by the engine through the shared-memory entry points.
NextShm ==
    \E f \in {"f1"} :
        \/ \E region_ix \in Regions, region_size \in RegionSizes :
            shm_map(f, region_ix, region_size)
        \/ \E a \in ShmLockArgs : shm_lock(f, a[1], a[2], a[3])
        \/ \E delete_flags \in 0 .. 1 : shm_unmap_released(f, delete_flags)

Spec == Init /\ [][NextShm]_vars

\* One file driven through the lock ladder, with a WAL index whose regions
\* it maps and whose first slot it takes and gives up.
NextLock ==
    \E f \in {"f1"} :
        \/ \E e_lock \in LockCodes : lock(f, e_lock)
        \/ \E e_lock \in LockCodes : unlock(f, e_lock)
        \/ \E region_ix \in Regions : shm_map(f, region_ix, RegionSize)
        \/ \E flags \in ShmFlags : shm_lock(f, 0, 1, flags)
        \/ shm_unmap(f, 1)

SpecLock == Init /\ [][NextLock]_vars

\* One file that maps regions, takes the first slot, writes the regions
\* while it holds the slot in Exclusive mode, and gives the slot up in each
\* of the ways the entry points offer; every backend call succeeds.
NextPublish ==
    \E f \in {"f1"} :
        \/ \E region_ix \in Regions : shm_map(f, region_ix, RegionSize)
        \/ \E flags \in ShmFlags : shm_lock(f, 0, 1, flags)
        \/ \E region_ix \in Regions, v \in Vals : engine_write(f, region_ix, v)
        \/ \E delete_flags \in 0 .. 1 : shm_unmap(f, delete_flags)

SpecPublish == InitRace /\ [][NextPublish]_vars

\* One file that takes the database lock and a WAL-index slot, writes the
\* header region once it has mapped it and calls the barrier.
NextBarrier ==
    \E f \in {"f1"} :
        \/ \E e_lock \in {1, 4} : lock(f, e_lock)
        \/ \E e_lock \in {0, 1} : unlock(f, e_lock)
        \/ \E region_ix \in Regions : shm_map(f, region_ix, RegionSize)
        \/ \E flags \in ShmFlags : shm_lock(f, 0, 1, flags)
        \/ \E v \in Vals : engine_write(f, 0, v)
        \/ shm_barrier(f)

SpecBarrier == Init /\ [][NextBarrier]_vars

\* Two files that share one backend WAL index, each driven by its own
\* connection: a file's shm_lock may be overtaken by the other file between
\* its pre-step and its call of wal_index.lock.  The engine's traffic is
\* that on the header region and its first lock slot.
NextRace ==
    \E f \in Files :
        \/ shm_map(f, 0, RegionSize)
        \/ \E flags \in ShmFlags : shm_lock_begin(f, 0, 1, flags)
        \/ shm_lock_end(f)
        \/ \E v \in Vals : engine_write(f, 0, v)

SpecRace == InitRace /\ [][NextRace]_vars

\* Two threads of one connection on one file: one in shm_lock, one in
\* shm_barrier, each giving way to the other at its backend calls.  The
\* regions are mapped, and the database lock is taken, while no barrier runs.
NextThreads ==
    \E f \in {"f1"} :
        \/ /\ barrier_pc[f].mode = "idle"
           /\ \E region_ix \in Regions : shm_map(f, region_ix, RegionSize)
        \/ /\ barrier_pc[f].mode = "idle"
           /\ lock(f, 4)
        \/ /\ barrier_pc[f].mode = "idle"
           /\ unlock(f, 0)
        \/ \E n \in 1 .. 2, flags \in ShmFlags : shm_lock_begin(f, 0, n, flags)
        \/ shm_lock_end(f)
        \/ \E v \in Vals : engine_write(f, 0, v)
        \/ shm_barrier_begin(f)
        \/ shm_barrier_call(f)

SpecThreads == InitRace /\ [][NextThreads]_vars

\* What the engine passes for z_name.
ZNames == {NullName, BadName} \cup Names

\* The flag sets the engine opens files with: a main database and its WAL
\* in every access, with and without DELETEONCLOSE, a main database by URI,
\* and flag sets that lack a kind, an access or both.
OpenFlagArgs ==
    {OpenOptions_to_flags(SomeOptions(k, a, d))
        : k \in {"MainDb", "Wal"}, a \in OpenAccess, d \in BOOLEAN}
    \cup {BitOr(SQLITE_OPEN_URI,
                OpenOptions_to_flags(SomeOptions("MainDb", "Create", FALSE)))}
    \cup {0, SQLITE_OPEN_MAIN_DB, SQLITE_OPEN_READWRITE}

\* The engine opens into a slot that holds no file.
open_fresh(p_file, z_name, flags, p_out_flags, uri_psow) ==
    /\ p_file # NullFile => ~payload[p_file].init
    /\ open(p_file, z_name, flags, p_out_flags, uri_psow)

\* The engine closes a slot only after an open of it has succeeded.
close_opened(f) == payload[f].init /\ close(f)

\* One file slot that the engine opens and closes.
NextOpen ==
    \E f \in {"f1"} :
        \/ \E p_file \in {f, NullFile}, z_name \in ZNames, flags \in OpenFlagArgs,
              p_out_flags \in BOOLEAN, uri_psow \in BOOLEAN :
            open_fresh(p_file, z_name, flags, p_out_flags, uri_psow)
        \/ close_opened(f)

SpecOpen == InitOpen /\ [][NextOpen]_vars

\* The file controls that size a file.
SizingOps == {"SQLITE_FCNTL_SIZE_HINT", "SQLITE_FCNTL_CHUNK_SIZE"}

\* The engine works on the bytes of one open file: it reads, writes, resizes
\* and syncs it, asks for its size and sends it the sizing file controls.
NextIo ==
    \E f \in {"f1"} :
        \/ \E i_amt \in Amounts, i_ofst \in Offsets : read(f, i_amt, i_ofst)
        \/ \E i_amt \in Amounts, i_ofst \in Offsets : write(f, i_amt, i_ofst)
        \/ \E size \in Offsets : truncate(f, size)
        \/ \E data_only \in BOOLEAN : sync(f, data_only)
        \/ \E p_null \in BOOLEAN : file_size(f, p_null)
        \/ \E op \in SizingOps, p_null \in BOOLEAN, arg \in ArgVals :
            file_control(f, op, p_null, arg)

SpecIo == Init /\ [][NextIo]_vars

\* The engine queries and configures one open file: its reserved lock, its
\* capabilities and the file controls that do not size it.
NextFcntl ==
    \E f \in {"f1"} :
        \/ \E p_null \in BOOLEAN : check_reserved_lock(f, p_null)
        \/ \E op \in FcntlOps \ SizingOps, p_null \in BOOLEAN, arg \in ArgVals :
            file_control(f, op, p_null, arg)
        \/ device_characteristics(f)

SpecFcntl == Init /\ [][NextFcntl]_vars

\* The engine opens a slot, closes slots in any state, a null one included,
\* and deletes files by name.
NextClose ==
    \E f \in {"f1"} :
        \/ \E p_file \in {f, NullFile}, z_name \in ZNames, flags \in OpenFlagArgs,
              p_out_flags \in BOOLEAN, uri_psow \in BOOLEAN :
            open_fresh(p_file, z_name, flags, p_out_flags, uri_psow)
        \/ \E p_file \in {f, NullFile} : close(p_file)
        \/ \E p_vfs \in {"vfs", NullVfs}, z_path \in Names \cup {BadName} :
            delete(p_vfs, z_path)

SpecClose == InitOpen /\ [][NextClose]_vars

\* The bits OpenOptions::from_flags looks at.
\* Two files of one VFS and the VFS itself record failures in any order; the
\* engine asks for the last error in between.
NextErr ==
    \/ \E f \in Files, data_only \in BOOLEAN : sync(f, data_only)
    \/ \E f \in Files, p_null \in BOOLEAN : check_reserved_lock(f, p_null)
    \/ \E p_vfs \in {"vfs", NullVfs}, z_path \in Names \cup {BadName} :
            delete(p_vfs, z_path)
    \/ \E p_vfs \in {"vfs", NullVfs}, z_path \in Names \cup {BadName},
          flags \in AccessFlags, p_null \in BOOLEAN :
            access(p_vfs, z_path, flags, p_null)
    \/ \E p_vfs \in {"vfs", NullVfs}, z_path \in Names \cup {BadName},
          n_out \in OutSizes :
            full_pathname(p_vfs, z_path, n_out)
    \/ \E p_vfs \in {"vfs", NullVfs}, n_byte \in ByteCounts :
            get_last_error(p_vfs, n_byte)

SpecErr == Init /\ [][NextErr]_vars

\* What the bucket may hold under a name other than db_filename before the
\* clients start: nothing, an empty object, an object of two bytes.
StoredBefore == {[exists |-> FALSE, bytes |-> <<>>], [exists |-> TRUE, bytes |-> <<>>],
                 [exists |-> TRUE, bytes |-> <<1, 1>>]}

\* A bucket whose lock file does not exist yet or was released before, the
\* handles opened under db_filename or another name, and the files of the
\* adapter at rest.
InitS3 ==
    /\ wal_enabled = TRUE
    /\ backend_faulty = FALSE
    /\ backend_syncs = FALSE
    /\ FilesOpened
    /\ NoCaller
    /\ NoLockCaller
    /\ s3 \in {[lock_file |-> lf, db |-> <<>>, db_exists |-> e,
                 obj |-> o.bytes, obj_exists |-> o.exists, streamed |-> st]
               : lf \in {NoObject, Object(EmptyBody, "Off")},
                 e \in BOOLEAN, o \in StoredBefore, st \in BOOLEAN}
    /\ client \in [Clients -> {OpenedClient(k) : k \in ObjKeys}]

\* Clients that take and release the S3FileLock through the Lock trait, each
\* request of theirs a step of its own.
NextS3Lock ==
    \E c \in Clients :
        \/ request_lock(c)
        \/ get_object_legal_hold(c)
        \/ put_uuid(c)
        \/ check(c)
        \/ peek(c)
        \/ probe(c)
        \/ create(c)
        \/ release_lock(c)

SpecS3Lock == InitS3 /\ [][NextS3Lock]_vars

\* Clients that read, write and resize the database object, each request of
\* theirs to the bucket a step of its own.
NextS3 ==
    \E c \in Clients :
        \/ read_exact_at(c)
        \/ get_database_size(c)
        \/ \E offset \in Sizes, data \in Datas : write_at(c, offset, data)
        \/ \E size \in Sizes : set_len(c, size)
        \/ get_object_legal_hold(c)
        \/ put_uuid(c)
        \/ check(c)
        \/ peek(c)
        \/ probe(c)
        \/ create(c)
        \/ release_lock(c)
        \/ read_metadata(c)
        \/ write_metadata(c)
        \/ get_object(c)
        \/ put_object(c)

SpecS3 == InitS3 /\ [][NextS3]_vars

\* A lock file left behind by a client that ended while it held the lock.
StaleLock == Object(UuidBody(Uuid("c2", 1)), "On")

InitS3Solo ==
    /\ wal_enabled = TRUE
    /\ backend_faulty = FALSE
    /\ backend_syncs = FALSE
    /\ FilesOpened
    /\ NoCaller
    /\ NoLockCaller
    /\ s3 \in {[lock_file |-> lf, db |-> <<>>, db_exists |-> e,
                 obj |-> <<>>, obj_exists |-> FALSE, streamed |-> st]
               : lf \in {NoObject, Object(EmptyBody, "Off"), StaleLock},
                 e \in BOOLEAN, st \in BOOLEAN}
    /\ client = [c \in Clients |-> IdleClient]

\* The calls the one client makes.  A call of Inner draws three identifiers
\* when nothing makes it wait: two in its request and one in its release.
CallsSolo(c) ==
    \/ request_lock(c)
    \/ /\ CanDraw(client[c], 3)
       /\ \/ read_exact_at(c)
          \/ get_database_size(c)
          \/ \E offset \in Sizes, data \in Datas : write_at(c, offset, data)

\* The requests a call makes once it has begun.
StepsSolo(c) ==
    \/ get_object_legal_hold(c)
    \/ put_uuid(c)
    \/ check(c)
    \/ peek(c)
    \/ probe(c)
    \/ create(c)
    \/ release_lock(c)
    \/ read_metadata(c)
    \/ write_metadata(c)
    \/ get_object(c)
    \/ put_object(c)

\* One client alone on the bucket.  A call that has begun goes on: every
\* request is answered, and the client makes the next one.
NextS3Solo == CallsSolo("c1") \/ StepsSolo("c1")

SpecS3Solo == InitS3Solo /\ [][NextS3Solo]_vars /\ WF_vars(StepsSolo("c1"))

FlagBits ==
    {SQLITE_OPEN_READONLY, SQLITE_OPEN_READWRITE, SQLITE_OPEN_CREATE,
     SQLITE_OPEN_DELETEONCLOSE, SQLITE_OPEN_EXCLUSIVE, SQLITE_OPEN_MAIN_DB,
     SQLITE_OPEN_TEMP_DB, SQLITE_OPEN_TRANSIENT_DB, SQLITE_OPEN_MAIN_JOURNAL,
     SQLITE_OPEN_TEMP_JOURNAL, SQLITE_OPEN_SUBJOURNAL, SQLITE_OPEN_SUPER_JOURNAL,
     SQLITE_OPEN_WAL}

\* The flag set with exactly the bits of S.
RECURSIVE FlagsOf(_)
FlagsOf(S) ==
    IF S = {} THEN 0
    ELSE LET b == CHOOSE x \in S : TRUE IN BitOr(b, FlagsOf(S \ {b}))

\* Every flag set over those bits.
FlagSets == {FlagsOf(S) : S \in SUBSET FlagBits}

\* A caller that holds any flag set and converts back and forth.
InitFlags ==
    /\ wal_enabled = TRUE
    /\ backend_faulty = FALSE
    /\ backend_syncs = FALSE
    /\ Closed
    /\ arg_flags \in FlagSets
    /\ arg_opts = NoOptions
    /\ NoLockCaller

NextFlags == from_flags_call \/ to_flags_call

SpecFlags == InitFlags /\ [][NextFlags]_vars

\* A caller that holds any lock code and any two levels.
InitLockKind ==
    /\ wal_enabled = TRUE
    /\ backend_faulty = FALSE
    /\ backend_syncs = FALSE
    /\ Closed
    /\ NoCaller
    /\ arg_lock \in LockCodes
    /\ arg_kinds \in LockKind \X LockKind
    /\ arg_cmp = "Unset"

NextLockKind == from_i32_call \/ to_i32_call \/ partial_cmp_call

SpecLockKind == InitLockKind /\ [][NextLockKind]_vars

\* ------------------------------------------------------------- properties

\* The positions of the calls of backend operation `op` in a call trace.
CallsOf(calls, op) == {i \in 1 .. Len(calls) : calls[i].op = op}

\* Before position i of the trace, `op` has succeeded on region r.
DoneBefore(calls, op, r, i) ==
    \E j \in CallsOf(calls, op) : j < i /\ calls[j].region = r /\ calls[j].res = "Ok"

\* The mode the flags of shm_lock ask for.
ModeOfFlags(flags) ==
    IF flags = {"LOCK", "EXCLUSIVE"} THEN "Exclusive"
    ELSE IF flags = {"LOCK", "SHARED"} THEN "Shared"
    ELSE "None"

\* C1: in shm_lock with the LOCK flag on a file whose WAL index exists, when
\* no slot of wal_index_locks is Exclusive every call of wal_index.lock
\* (made with the range and mode requested) comes after a pull of every key
\* of wal_index_regions; when some slot is Exclusive no pull is made.
C1_PullBeforeAcquire ==
    \A f \in Files, a \in ShmLockArgs :
        ("LOCK" \in a[3] /\ wal_index[f].present) =>
            \A out \in ShmLockOutcomes(f, a[1], a[2], a[3]) :
                /\ \A i \in CallsOf(out.calls, "lock") :
                       /\ out.calls[i].lo = a[1] /\ out.calls[i].hi = a[1] + a[2]
                       /\ out.calls[i].mode = ModeOfFlags(a[3])
                /\ IF \E s \in DOMAIN wal_index_locks[f] :
                          wal_index_locks[f][s] = "Exclusive"
                   THEN CallsOf(out.calls, "pull") = {}
                   ELSE \A i \in CallsOf(out.calls, "lock") :
                            \A r \in DOMAIN wal_index_regions[f] :
                                DoneBefore(out.calls, "pull", r, i)

\* A file that holds a Shared slot and no Exclusive one, with every region
\* materialized, whose next acquisition pulls them all and is granted.
C1_Witness ==
    /\ DOMAIN wal_index_regions["f1"] = Regions
    /\ \E s \in DOMAIN wal_index_locks["f1"] : wal_index_locks["f1"][s] = "Shared"
    /\ ~HasExclusive(wal_index_locks["f1"])
    /\ \E out \in ShmLockOutcomes("f1", 0, 1, {"LOCK", "SHARED"}) :
           /\ out.ret = "SQLITE_OK"
           /\ Cardinality(CallsOf(out.calls, "pull")) = Cardinality(Regions)

\* C2: in shm_lock without the LOCK flag on a file whose WAL index exists,
\* when the range holds a slot recorded Exclusive and the index is not
\* readonly every call of wal_index.lock(range, None) comes after a push of
\* every key of wal_index_regions; otherwise no push is made.
C2_PushBeforeRelease ==
    \A f \in Files, a \in ShmLockArgs :
        ("LOCK" \notin a[3] /\ wal_index[f].present) =>
            \A out \in ShmLockOutcomes(f, a[1], a[2], a[3]) :
                /\ \A i \in CallsOf(out.calls, "lock") :
                       /\ out.calls[i].lo = a[1] /\ out.calls[i].hi = a[1] + a[2]
                       /\ out.calls[i].mode = "None"
                /\ IF /\ \E s \in a[1] .. (a[1] + a[2] - 1) :
                             /\ s \in DOMAIN wal_index_locks[f]
                             /\ wal_index_locks[f][s] = "Exclusive"
                      /\ ~wal_index[f].readonly
                   THEN \A i \in CallsOf(out.calls, "lock") :
                            \A r \in DOMAIN wal_index_regions[f] :
                                DoneBefore(out.calls, "push", r, i)
                   ELSE CallsOf(out.calls, "push") = {}

\* A writable file that holds slot 0 Exclusive, with every region
\* materialized, whose release of the slot pushes them all and is granted.
C2_Witness ==
    /\ DOMAIN wal_index_regions["f1"] = Regions
    /\ wal_index["f1"].present /\ ~wal_index["f1"].readonly
    /\ 0 \in DOMAIN wal_index_locks["f1"] /\ wal_index_locks["f1"][0] = "Exclusive"
    /\ \E out \in ShmLockOutcomes("f1", 0, 1, {"UNLOCK", "EXCLUSIVE"}) :
           /\ out.ret = "SQLITE_OK"
           /\ Cardinality(CallsOf(out.calls, "push")) = Cardinality(Regions)

\* C3: over a backend that implements pull and push, when a file that
\* holds no Exclusive slot is about to call wal_index.lock for an
\* acquisition, every grant it may receive finds each of its materialized
\* buffers equal to the backend's copy of the region at the moment of the
\* grant.
C3_CoherentAtGrant ==
    \A f \in Files :
        (/\ backend_syncs
         /\ pc[f].state = "lock"
         /\ "LOCK" \in pc[f].flags
         /\ ~HasExclusive(wal_index_locks[f])) =>
            \A out \in ShmLockPending(f) :
                out.ret = "SQLITE_OK" =>
                    \A r \in DOMAIN out.regions :
                        out.regions[r].data = out.backend[r]

\* C4: on a file whose WAL index exists, wal_index.lock is the last backend
\* call of shm_lock; answered Ok(true), shm_lock returns OK and
\* wal_index_locks holds the requested mode on every slot of
\* [offset, offset+n) and is unchanged elsewhere; answered Ok(false) it
\* returns BUSY, answered with an error IOERR_SHMLOCK, wal_index_locks
\* unchanged in both.
C4_ShmLockOutcome ==
    \A f \in Files, a \in ShmLockArgs :
        wal_index[f].present =>
            \A out \in ShmLockOutcomes(f, a[1], a[2], a[3]) :
                \A i \in CallsOf(out.calls, "lock") :
                    LET res == out.calls[i].res
                        inside == a[1] .. (a[1] + a[2] - 1)
                        locks == wal_index_locks[f]
                    IN  /\ i = Len(out.calls)
                        /\ res = "true" =>
                               /\ out.ret = "SQLITE_OK"
                               /\ DOMAIN out.locks = DOMAIN locks \cup inside
                               /\ \A s \in inside : out.locks[s] = ModeOfFlags(a[3])
                               /\ \A s \in DOMAIN locks \ inside :
                                      out.locks[s] = locks[s]
                        /\ res = "false" =>
                               out.ret = "SQLITE_BUSY" /\ out.locks = locks
                        /\ res = "err" =>
                               out.ret = "SQLITE_IOERR_SHMLOCK" /\ out.locks = locks
                        /\ res \in {"true", "false", "err"}

\* Slot 0 is recorded Exclusive and slot 1 Shared, by two grants, and a
\* release of slot 1 alone can be granted, refused or fail.
C4_Witness ==
    /\ DOMAIN wal_index_locks["f1"] = {0, 1}
    /\ wal_index_locks["f1"][0] = "Exclusive"
    /\ wal_index_locks["f1"][1] = "Shared"
    /\ {out.ret : out \in ShmLockOutcomes("f1", 1, 1, {"UNLOCK", "SHARED"})}
           = {"SQLITE_OK", "SQLITE_BUSY", "SQLITE_IOERR_SHMLOCK"}

\* The level an e_lock integer names, when it names one.
LevelOf(e_lock) == <<"None", "Shared", "Reserved", "Pending", "Exclusive">>[e_lock + 1]

\* C5: has_exclusive_lock is true exactly when the last lock or unlock call
\* the backend answered Ok(true) asked for Exclusive (false when there was
\* none); a call that is refused, fails or carries an invalid level leaves
\* it as it was, in every way the call can run.
C5_ExclusiveFlag ==
    \A f \in Files :
        /\ has_exclusive_lock[f] = (last_granted[f] = "Exclusive")
        /\ \A e_lock \in LockCodes :
               \A out \in LockOutcomes(f, e_lock) \cup UnlockOutcomes(f, e_lock) :
                   IF out.calls # <<>> /\ out.calls[1].res = "true"
                   THEN /\ out.granted = LevelOf(e_lock)
                        /\ out.excl = (e_lock = 4)
                   ELSE /\ out.granted = last_granted[f]
                        /\ out.excl = has_exclusive_lock[f]

\* The flag is set after a granted Exclusive, and the next call may clear
\* it (a grant below Exclusive) or leave it (refused, failed, invalid).
C5_Witness ==
    /\ has_exclusive_lock["f1"]
    /\ last_granted["f1"] = "Exclusive"
    /\ \E out \in UnlockOutcomes("f1", 1) : out.ret = "SQLITE_OK" /\ ~out.excl
    /\ \E out \in UnlockOutcomes("f1", 1) : out.ret = "SQLITE_BUSY" /\ out.excl

\* C6: lock with one of the five levels calls backend.lock once, with that
\* level, and returns OK on Ok(true), BUSY with no error recorded on
\* Ok(false), IOERR_LOCK with the error recorded on failure; with any other
\* integer it returns IOERR_LOCK and calls nothing.
C6_LockStatus ==
    \A f \in Files, e_lock \in LockCodes :
        \A out \in LockOutcomes(f, e_lock) :
            IF e_lock \in 0 .. 4
            THEN /\ CallsOf(out.calls, "file.lock") = {1}
                 /\ out.calls[1].level = LevelOf(e_lock)
                 /\ out.calls[1].res \in {"true", "false", "err"}
                 /\ out.calls[1].res = "true" =>
                        out.ret = "SQLITE_OK" /\ out.err = "none"
                 /\ out.calls[1].res = "false" =>
                        out.ret = "SQLITE_BUSY" /\ out.err = "none"
                 /\ out.calls[1].res = "err" =>
                        out.ret = "SQLITE_IOERR_LOCK" /\ out.err # "none"
            ELSE /\ out.calls = <<>>
                 /\ out.ret = "SQLITE_IOERR_LOCK"

\* A failed lock has recorded IOERR_LOCK, and the file can meet all three
\* answers of the backend as well as an integer that names no level.
C6_Witness ==
    /\ last_errno["f1"] = "SQLITE_IOERR_LOCK"
    /\ last_error.set /\ last_error.code = "SQLITE_IOERR_LOCK"
    /\ {out.ret : out \in LockOutcomes("f1", 2)}
           = {"SQLITE_OK", "SQLITE_BUSY", "SQLITE_IOERR_LOCK"}
    /\ \E out \in LockOutcomes("f1", 5) : out.calls = <<>>

\* C7: a lock answered Ok(true) pulls each key of wal_index_regions exactly
\* once, and still returns OK whatever the pulls answer, when the level is
\* Exclusive and no slot of wal_index_locks is Exclusive; it pulls nothing
\* at a lower level or when some slot is Exclusive.  unlock never pulls or
\* pushes.
C7_PullAfterExclusive ==
    \A f \in Files, e_lock \in LockCodes :
        /\ \A out \in LockOutcomes(f, e_lock) :
               (out.calls # <<>> /\ out.calls[1].res = "true") =>
                   /\ out.ret = "SQLITE_OK"
                   /\ CallsOf(out.calls, "push") = {}
                   /\ IF /\ e_lock = 4
                         /\ \A s \in DOMAIN wal_index_locks[f] :
                                wal_index_locks[f][s] # "Exclusive"
                      THEN /\ \A r \in DOMAIN wal_index_regions[f] :
                                  Cardinality({i \in CallsOf(out.calls, "pull") :
                                                  out.calls[i].region = r}) = 1
                           /\ \A i \in CallsOf(out.calls, "pull") :
                                  /\ i > 1
                                  /\ out.calls[i].region \in DOMAIN wal_index_regions[f]
                      ELSE CallsOf(out.calls, "pull") = {}
        /\ \A out \in UnlockOutcomes(f, e_lock) :
               CallsOf(out.calls, "pull") \cup CallsOf(out.calls, "push") = {}

\* Every region is materialized and no slot is Exclusive: a granted
\* lock(Exclusive) pulls them all, and returns OK even when every pull fails.
C7_Witness ==
    /\ DOMAIN wal_index_regions["f1"] = Regions
    /\ ~HasExclusive(wal_index_locks["f1"])
    /\ \E out \in LockOutcomes("f1", 4) :
           /\ out.ret = "SQLITE_OK"
           /\ Cardinality(CallsOf(out.calls, "pull")) = Cardinality(Regions)
           /\ \A i \in CallsOf(out.calls, "pull") : out.calls[i].res = "Err"

Succeeded(out) == out.ret \in {"SQLITE_OK", "SQLITE_READONLY"}

\* What every shm_map call does to the regions of its file.
C8_MapPins ==
    \A f \in Files, region_ix \in Regions :
        \A out \in ShmMapOutcomes(f, region_ix, RegionSize) :
            LET regions == wal_index_regions[f] IN
            /\ \A r \in DOMAIN regions \ {region_ix} :
                   r \in DOMAIN out.regions /\ out.regions[r] = regions[r]
            /\ Cardinality(CallsOf(out.calls, "map")) <= 1
            /\ region_ix \in DOMAIN regions =>
                   /\ CallsOf(out.calls, "map") = {}
                   /\ out.regions = regions
                   /\ Succeeded(out) /\ out.pp = regions[region_ix].addr
            /\ (region_ix \notin DOMAIN regions /\ Succeeded(out)) =>
                   /\ region_ix \in DOMAIN out.regions
                   /\ out.pp = out.regions[region_ix].addr
                   /\ out.pp \notin {regions[r].addr : r \in DOMAIN regions}

\* What every step does to the regions of a file: a buffer keeps its
\* address for as long as its region stays materialized, and regions are
\* dropped only all at once.
C8_StaysPinned ==
    \A f \in Files : \A r \in DOMAIN wal_index_regions[f] :
        IF r \in DOMAIN wal_index_regions'[f]
        THEN wal_index_regions'[f][r].addr = wal_index_regions[f][r].addr
        ELSE wal_index_regions'[f] = Empty

\* C8: from its first successful shm_map until the next shm_unmap a region
\* keeps one buffer address, which every later successful shm_map of the
\* region returns without calling wal_index.map again; a shm_map call makes
\* at most one wal_index.map call and leaves the address and the contents of
\* every other materialized region as they were.
C8_RegionPinning == [](C8_MapPins) /\ [][C8_StaysPinned]_vars

\* Both regions are materialized, at different addresses.
C8_Witness ==
    /\ DOMAIN wal_index_regions["f1"] = Regions
    /\ wal_index_regions["f1"][0].addr # wal_index_regions["f1"][1].addr
    /\ \A out \in ShmMapOutcomes("f1", 0, RegionSize) :
           out.pp = wal_index_regions["f1"][0].addr

\* C9: with the WAL index enabled, shm_map with a region_size other than
\* 32768 returns IOERR_SHMMAP, records InvalidRegionSize, calls no backend
\* operation and leaves wal_index, wal_index_regions and wal_index_locks as
\* they were.
C9_InvalidRegionSize ==
    \A f \in Files, region_ix \in Regions, region_size \in RegionSizes :
        (wal_enabled /\ region_size # 32768) =>
            \A out \in ShmMapOutcomes(f, region_ix, region_size) :
                /\ out.ret = "SQLITE_IOERR_SHMMAP"
                /\ out.err = "InvalidRegionSize"
                /\ out.calls = <<>>
                /\ out.index = wal_index[f]
                /\ out.regions = wal_index_regions[f]
                /\ out.locks = wal_index_locks[f]

\* The error is on record while the file has an index, a region and a slot
\* that the failed call has left alone.
C9_Witness ==
    /\ last_error.set /\ last_error.diag = "InvalidRegionSize"
    /\ last_errno["f1"] = "SQLITE_IOERR_SHMMAP"
    /\ wal_index["f1"].present
    /\ wal_index_regions["f1"] # Empty
    /\ wal_index_locks["f1"] # Empty

\* C10: a shm_map that finds the slot empty calls wal_index(false) first,
\* and wal_index(true) once after it exactly when the first call failed
\* with PermissionDenied; the slot is filled readonly iff that retry
\* succeeded, writable iff the first call succeeded, and otherwise stays
\* empty with IOERR_SHMMAP returned.  A shm_map that finds the slot filled
\* calls wal_index not at all.  A successful shm_map returns READONLY on a
\* readonly slot and OK on a writable one.
C10_ReadonlyFallback ==
    \A f \in Files, region_ix \in Regions :
        wal_enabled =>
            \A out \in ShmMapOutcomes(f, region_ix, RegionSize) :
                LET opens == CallsOf(out.calls, "wal_index")
                    first == out.calls[1]
                    retry == out.calls[2]
                    denied == first.res = "PermissionDenied"
                IN  /\ Succeeded(out) =>
                           /\ out.index.present
                           /\ out.ret = "SQLITE_READONLY" <=> out.index.readonly
                    /\ IF wal_index[f].present
                       THEN opens = {} /\ out.index = wal_index[f]
                       ELSE /\ opens = IF denied THEN {1, 2} ELSE {1}
                            /\ ~first.readonly
                            /\ denied => retry.readonly
                            /\ out.index.present /\ out.index.readonly
                                   <=> denied /\ retry.res = "Ok"
                            /\ out.index.present /\ ~out.index.readonly
                                   <=> first.res = "Ok"
                            /\ ~out.index.present =>
                                   out.ret = "SQLITE_IOERR_SHMMAP"

\* The slot has been filled readonly, so that shm_map now returns READONLY.
C10_Witness ==
    /\ wal_index["f1"].present /\ wal_index["f1"].readonly
    /\ wal_index_regions["f1"] # Empty
    /\ \E out \in ShmMapOutcomes("f1", 0, RegionSize) : out.ret = "SQLITE_READONLY"

\* C11 as claimed: wal_index is absent after every shm_unmap call, with or
\* without the delete flag.
C11_AnyUnmapClears ==
    \A f \in Files, delete_flags \in 0 .. 1 :
        \A out \in ShmUnmapOutcomes(f, delete_flags) : ~out.index.present

\* What shm_map and shm_unmap do to the slot, in every way they can run.
C11_MapFillsUnmapTakes ==
    \A f \in Files :
        /\ \A region_ix \in Regions, region_size \in RegionSizes :
               \A out \in ShmMapOutcomes(f, region_ix, region_size) :
                   out.index.present <=>
                       \/ wal_index[f].present
                       \/ \E i \in CallsOf(out.calls, "wal_index") :
                              out.calls[i].res = "Ok"
        /\ \A delete_flags \in 0 .. 1 :
               \A out \in ShmUnmapOutcomes(f, delete_flags) :
                   IF delete_flags = 1
                   THEN ~out.index.present
                   ELSE out.index = wal_index[f]

\* A step changes the slot only by filling it or by emptying it together
\* with both maps.
C11_SlotStep ==
    \A f \in Files :
        wal_index'[f] # wal_index[f] =>
            \/ ~wal_index[f].present /\ wal_index'[f].present
            \/ /\ wal_index[f].present /\ ~wal_index'[f].present
               /\ wal_index_regions'[f] = Empty /\ wal_index_locks'[f] = Empty

\* C11, amended: wal_index is absent after open, is filled exactly by a
\* shm_map call whose wal_index call succeeds, stays present through
\* shm_unmap without the delete flag and is emptied exactly by shm_unmap
\* with the delete flag; no other entry point changes it.
C11_IndexPresence ==
    /\ \A f \in Files : ~wal_index[f].present
    /\ [](C11_MapFillsUnmapTakes)
    /\ [][C11_SlotStep]_vars

\* The index is present with both maps empty and SHMLOCK the last error:
\* shm_unmap without the delete flag keeps it, with the flag takes it.
C11_Witness ==
    /\ wal_index["f1"].present
    /\ wal_index_regions["f1"] = Empty /\ wal_index_locks["f1"] = Empty
    /\ last_errno["f1"] = "SQLITE_IOERR_SHMLOCK"
    /\ \A out \in ShmUnmapOutcomes("f1", 0) : out.index.present
    /\ \A out \in ShmUnmapOutcomes("f1", 1) : ~out.index.present

\* C12: shm_barrier on a file with a WAL index pushes every materialized
\* region once and pulls none when has_exclusive_lock is set and the index
\* is writable; otherwise pulls every materialized region once and pushes
\* none when no slot is Exclusive; otherwise calls nothing.  It leaves
\* wal_index_locks, the keys of wal_index_regions, has_exclusive_lock and
\* the error slot alone, and without a WAL index it does nothing at all.
C12_Barrier ==
    \A f \in Files : \A out \in ShmBarrierOutcomes(f) :
        LET pushes == CallsOf(out.calls, "push")
            pulls == CallsOf(out.calls, "pull")
            regions == wal_index_regions[f]
            once(ops) == \A r \in DOMAIN regions :
                Cardinality({i \in ops : out.calls[i].region = r}) = 1
        IN  /\ out.locks = wal_index_locks[f]
            /\ DOMAIN out.regions = DOMAIN regions
            /\ out.excl = has_exclusive_lock[f]
            /\ out.index = wal_index[f]
            /\ out.err = "none"
            /\ pushes \cup pulls = 1 .. Len(out.calls)
            /\ IF ~wal_index[f].present
               THEN /\ out.calls = <<>>
                    /\ out.regions = regions /\ out.backend = backend_regions
               ELSE IF has_exclusive_lock[f] /\ ~wal_index[f].readonly
               THEN pulls = {} /\ once(pushes) /\ out.regions = regions
               ELSE IF \A s \in DOMAIN wal_index_locks[f] :
                          wal_index_locks[f][s] # "Exclusive"
               THEN pushes = {} /\ once(pulls) /\ out.backend = backend_regions
               ELSE out.calls = <<>>

\* The barrier has published a write: the file holds the database lock,
\* its buffer of region 0 differs from what it mapped and the backend has it.
C12_Witness ==
    /\ has_exclusive_lock["f1"]
    /\ wal_index["f1"].present /\ ~wal_index["f1"].readonly
    /\ DOMAIN wal_index_regions["f1"] = Regions
    /\ wal_index_regions["f1"][0].data = 1 /\ backend_regions[0] = 1
    /\ HasExclusive(wal_index_locks["f1"])
    /\ \E out \in ShmBarrierOutcomes("f1") :
           Cardinality(CallsOf(out.calls, "push")) = Cardinality(Regions)

\* C13: shm_unmap leaves wal_index_regions and wal_index_locks empty in
\* every case; it calls wal_index.delete (once) iff delete_flags is 1 and
\* the index is present and not readonly; when that call fails it returns
\* SQLITE_ERROR with the error recorded, and otherwise SQLITE_OK.
C13_Unmap ==
    \A f \in Files, delete_flags \in 0 .. 1 :
        \A out \in ShmUnmapOutcomes(f, delete_flags) :
            LET deletes == CallsOf(out.calls, "delete") IN
            /\ out.regions = Empty /\ out.locks = Empty
            /\ deletes = 1 .. Len(out.calls)
            /\ deletes = IF /\ delete_flags = 1
                            /\ wal_index[f].present /\ ~wal_index[f].readonly
                         THEN {1} ELSE {}
            /\ IF deletes # {} /\ out.calls[1].res = "Err"
               THEN out.ret = "SQLITE_ERROR" /\ out.err # "none"
               ELSE out.ret = "SQLITE_OK" /\ out.err = "none"

\* A failed delete is on record; the file has since obtained an index,
\* regions and slots again, and its next shm_unmap may delete or fail.
C13_Witness ==
    /\ wal_index["f1"].present /\ ~wal_index["f1"].readonly
    /\ wal_index_regions["f1"] # Empty /\ wal_index_locks["f1"] # Empty
    /\ last_errno["f1"] = "SQLITE_ERROR"
    /\ {out.ret : out \in ShmUnmapOutcomes("f1", 1)} = {"SQLITE_OK", "SQLITE_ERROR"}

\* C14: shm_lock on a file whose wal_index is absent returns IOERR_SHMLOCK,
\* records the WalIndexLock diagnostic, calls no backend operation and
\* leaves the lock slots, the regions and the backend as they were.
C14_LockWithoutIndex ==
    \A f \in Files, a \in ShmLockArgs :
        ~wal_index[f].present =>
            \A out \in ShmLockOutcomes(f, a[1], a[2], a[3]) :
                /\ out.ret = "SQLITE_IOERR_SHMLOCK"
                /\ out.err = "WalIndexLock"
                /\ out.calls = <<>>
                /\ out.locks = wal_index_locks[f]
                /\ out.held = backend_locks[f]
                /\ out.regions = wal_index_regions[f]
                /\ out.backend = backend_regions

\* The diagnostic is on record on a file that has no index.
C14_Witness ==
    /\ wal_enabled /\ ~wal_index["f1"].present
    /\ last_error.set /\ last_error.diag = "WalIndexLock"
    /\ last_errno["f1"] = "SQLITE_IOERR_SHMLOCK"

\* The backend calls of one open: its open calls and its exists calls, by
\* position in the trace.
Opens(out) == CallsOf(out.calls, "open")
Asked(out) == CallsOf(out.calls, "exists")

\* The first backend.open call of a trace that has one.
FirstOpen(out) == out.calls[CHOOSE i \in Opens(out) : \A j \in Opens(out) : i <= j]

\* The kinds and accesses of the readonly-directory case.
JournalKinds == {"SuperJournal", "MainJournal", "Wal"}
CreatingAccess == {"Create", "CreateNew"}

\* Every open of the slot f1 under a name or none, with every valid option
\* set encoded as the engine encodes it.
OpenInputs == ZNames \X AllOptions

\* C15: when backend.open fails with PermissionDenied for a SuperJournal,
\* MainJournal or Wal asked for with Create or CreateNew, open asks
\* backend.exists once about the name it tried to open, and when the answer
\* is that the file does not exist, open returns READONLY_DIRECTORY with the
\* backend's error recorded, has called backend.open once only and does not
\* initialize the payload.
C15_ReadonlyDirectory ==
    \A in \in OpenInputs :
        \A out \in OpenOutcomes(in[1], OpenOptions_to_flags(in[2]), "f1", TRUE) :
            (/\ Opens(out) # {}
             /\ FirstOpen(out).res = "PermissionDenied"
             /\ in[2].kind \in JournalKinds
             /\ in[2].access \in CreatingAccess) =>
                /\ Cardinality(Asked(out)) = 1
                /\ \A i \in Asked(out) :
                    /\ out.calls[i].name = FirstOpen(out).name
                    /\ out.calls[i].res = "false" =>
                        /\ out.ret = "SQLITE_READONLY_DIRECTORY"
                        /\ out.err = "PermissionDenied"
                        /\ Cardinality(Opens(out)) = 1
                        /\ ~out.init

\* An open has been refused for a readonly directory: the status and the
\* backend's error are on record, no open has succeeded and the slot has no
\* payload, while the same request may be refused the same way again.
C15_Witness ==
    /\ last_error.set
    /\ last_error.code = "SQLITE_READONLY_DIRECTORY"
    /\ last_error.diag = "PermissionDenied"
    /\ ~payload["f1"].init /\ next_id = 0
    /\ \E out \in OpenOutcomes("db", OpenOptions_to_flags(
                                   SomeOptions("Wal", "CreateNew", FALSE)), "f1", TRUE) :
           /\ out.ret = "SQLITE_READONLY_DIRECTORY"
           /\ Len(out.calls) = 2 /\ out.calls[2].res = "false"

\* The readonly-directory case of a trace: PermissionDenied for a journal
\* or WAL that was to be created, and backend.exists did not answer that
\* the file exists (a failed exists counts as a missing file).
ReadonlyDirectoryCase(out, opts) ==
    /\ FirstOpen(out).res = "PermissionDenied"
    /\ opts.kind \in JournalKinds
    /\ opts.access \in CreatingAccess
    /\ \A i \in Asked(out) : out.calls[i].res # "true"

\* C16: when backend.open fails with PermissionDenied, the access asked for
\* is not Read and the readonly-directory case does not apply, open calls
\* backend.open a second and last time, with access Read and the same name,
\* kind and delete_on_close; when that call succeeds open returns OK, the
\* payload holds the downgraded file and the out-flags are the downgraded
\* options encoded, READONLY being their access.  In every other case open
\* calls backend.open at most once.
C16_ReadonlyDowngrade ==
    \A in \in OpenInputs :
        \A out \in OpenOutcomes(in[1], OpenOptions_to_flags(in[2]), "f1", TRUE) :
            LET opts == in[2]
                readonly == SomeOptions(opts.kind, "Read", opts.delete_on_close)
                last == out.calls[Len(out.calls)]
            IN  IF /\ Opens(out) # {}
                   /\ FirstOpen(out).res = "PermissionDenied"
                   /\ opts.access # "Read"
                   /\ ~ReadonlyDirectoryCase(out, opts)
                THEN /\ Cardinality(Opens(out)) = 2
                     /\ last.op = "open" /\ last.opts = readonly
                     /\ last.name = FirstOpen(out).name
                     /\ last.res = "Ok" =>
                         /\ out.ret = "SQLITE_OK" /\ out.init
                         /\ out.file = readonly
                         /\ out.out_flags = OpenOptions_to_flags(readonly)
                         /\ HasBit(out.out_flags, SQLITE_OPEN_READONLY)
                         /\ ~HasBit(out.out_flags, SQLITE_OPEN_READWRITE)
                         /\ ~HasBit(out.out_flags, SQLITE_OPEN_CREATE)
                ELSE Cardinality(Opens(out)) <= 1

\* The slot holds a WAL that the backend opened for reading, the engine has
\* READONLY in its out-flags, and that is what an open of the WAL with
\* Create leaves when only its retry succeeds.
C16_Witness ==
    /\ payload["f1"].init
    /\ payload["f1"].file = SomeOptions("Wal", "Read", FALSE)
    /\ out_flags["f1"] = SQLITE_OPEN_WAL + SQLITE_OPEN_READONLY
    /\ \E out \in OpenOutcomes(payload["f1"].db_name, OpenOptions_to_flags(
                                   SomeOptions("Wal", "Create", FALSE)), "f1", TRUE) :
           /\ Cardinality(Opens(out)) = 2
           /\ out.init /\ out.file = payload["f1"].file
           /\ out.out_flags = out_flags["f1"]

\* A backend.open failure that is neither the readonly-directory case nor
\* repaired by a successful retry.
Unrepaired(out, opts) ==
    /\ Opens(out) # {}
    /\ FirstOpen(out).res # "Ok"
    /\ ~ReadonlyDirectoryCase(out, opts)
    /\ \A i \in Opens(out) : out.calls[i].res # "Ok"

\* C17 as claimed: every such failure makes open return CANTOPEN, whatever
\* the error kind and the access asked for, with the backend's error
\* recorded and the payload not initialized.
C17_AlwaysCantOpen ==
    \A in \in OpenInputs :
        \A out \in OpenOutcomes(in[1], OpenOptions_to_flags(in[2]), "f1", TRUE) :
            Unrepaired(out, in[2]) =>
                /\ out.ret = "SQLITE_CANTOPEN"
                /\ out.err = FirstOpen(out).res
                /\ ~out.init

\* C17: every such failure makes open return CANTOPEN, except that an error
\* of kind Other on a request with access Read makes it return IOERR; in
\* both cases the error of the first backend.open call is recorded and the
\* payload is not initialized.
C17_CantOpenOrIoErr ==
    \A in \in OpenInputs :
        \A out \in OpenOutcomes(in[1], OpenOptions_to_flags(in[2]), "f1", TRUE) :
            Unrepaired(out, in[2]) =>
                /\ out.ret = IF FirstOpen(out).res = "Other" /\ in[2].access = "Read"
                             THEN "SQLITE_IOERR"
                             ELSE "SQLITE_CANTOPEN"
                /\ out.err = FirstOpen(out).res
                /\ ~out.init

\* An open for reading has failed with an error of kind Other: IOERR and
\* the error are on record and the slot has no payload, while an open for
\* writing that fails the same way returns CANTOPEN.
C17_Witness ==
    /\ last_error.set
    /\ last_error.code = "SQLITE_IOERR" /\ last_error.diag = "Other"
    /\ ~payload["f1"].init /\ next_id = 0
    /\ \E out \in OpenOutcomes("db", OpenOptions_to_flags(
                                   SomeOptions("MainDb", "Write", FALSE)), "f1", TRUE) :
           /\ out.calls[1].res = "Other"
           /\ out.ret = "SQLITE_CANTOPEN" /\ out.err = "Other"

\* C18: an open without a name whose flags lack DELETEONCLOSE returns
\* CANTOPEN with an error recorded, calls neither backend.temporary_name nor
\* backend.open (nor anything else) and does not initialize the payload;
\* so a payload under a temporary name always has delete_on_close set.
\* An open without a name whose flags carry DELETEONCLOSE asks
\* backend.temporary_name first and once, passes the name it got to every
\* backend.open and backend.exists call, and when it succeeds stores that
\* name with delete_on_close set; close of a payload with delete_on_close
\* set calls backend.delete once, with the name the payload stores.
C18_TemporaryName ==
    /\ \A opts \in AllOptions :
        \A out \in OpenOutcomes(NullName, OpenOptions_to_flags(opts), "f1", TRUE) :
            IF ~opts.delete_on_close
            THEN /\ out.ret = "SQLITE_CANTOPEN" /\ out.err # "none"
                 /\ out.calls = <<>>
                 /\ ~out.init
            ELSE /\ Len(out.calls) >= 2
                 /\ CallsOf(out.calls, "temporary_name") = {1}
                 /\ out.calls[1].res \in TempNames
                 /\ \A i \in 2 .. Len(out.calls) :
                     /\ out.calls[i].op \in {"open", "exists"}
                     /\ out.calls[i].name = out.calls[1].res
                 /\ out.init => out.name = out.calls[1].res /\ out.delete_on_close
    /\ \A flags \in {0, SQLITE_OPEN_MAIN_DB, SQLITE_OPEN_READWRITE} :
        \A out \in OpenOutcomes(NullName, flags, "f1", TRUE) :
            out.ret = "SQLITE_CANTOPEN" /\ out.calls = <<>> /\ ~out.init
    /\ \A f \in Files :
        (payload[f].init /\ payload[f].db_name \in TempNames) =>
            payload[f].delete_on_close
    /\ \A f \in Files :
        (payload[f].init /\ payload[f].delete_on_close) =>
            \A out \in CloseOutcomes(f) :
                /\ Len(out.calls) = 1
                /\ out.calls[1].op = "delete"
                /\ out.calls[1].name = payload[f].db_name

\* An open without a name and without DELETEONCLOSE has been refused, and
\* after it the slot was opened under a temporary name with delete_on_close
\* set, so that its close deletes that name.
C18_Witness ==
    /\ last_error.set
    /\ last_error.diag = "delete on close expected for temporary database"
    /\ payload["f1"].init
    /\ payload["f1"].db_name = "tmp1"
    /\ payload["f1"].delete_on_close
    /\ \E out \in CloseOutcomes("f1") :
           out.calls[1].name = "tmp1" /\ out.ret = "SQLITE_OK"

\* The bits that name a kind, and those from_flags takes an access from
\* (EXCLUSIVE only turns Create into CreateNew and is no access by itself).
KindBits ==
    {SQLITE_OPEN_MAIN_DB, SQLITE_OPEN_MAIN_JOURNAL, SQLITE_OPEN_TEMP_DB,
     SQLITE_OPEN_TEMP_JOURNAL, SQLITE_OPEN_TRANSIENT_DB, SQLITE_OPEN_SUBJOURNAL,
     SQLITE_OPEN_SUPER_JOURNAL, SQLITE_OPEN_WAL}
AccessBits == {SQLITE_OPEN_READONLY, SQLITE_OPEN_READWRITE, SQLITE_OPEN_CREATE}

\* C19: from_flags(to_flags(options)) is Some(options) for each of the
\* eight kinds, four accesses and both values of delete_on_close; the
\* options a caller holds encode to flags that decode to them again; and
\* from_flags of the flag set a caller holds is None exactly when the set
\* has no kind bit or no access bit.
C19_RoundTrip ==
    /\ \A opts \in AllOptions :
        OpenOptions_from_flags(OpenOptions_to_flags(opts)) = opts
    /\ arg_opts.some =>
        /\ arg_opts \in AllOptions
        /\ OpenOptions_from_flags(OpenOptions_to_flags(arg_opts)) = arg_opts
    /\ OpenOptions_from_flags(arg_flags) = NoOptions
        <=> \/ \A bit \in KindBits : ~HasBit(arg_flags, bit)
            \/ \A bit \in AccessBits : ~HasBit(arg_flags, bit)

\* A caller has decoded a flag set with several kind bits and EXCLUSIVE
\* into WAL options with CreateNew and delete_on_close, and has encoded
\* them into the flags it now holds, which decode to the same options.
C19_Witness ==
    /\ arg_opts = SomeOptions("Wal", "CreateNew", TRUE)
    /\ arg_flags = OpenOptions_to_flags(arg_opts)
    /\ arg_flags = SQLITE_OPEN_WAL + SQLITE_OPEN_READWRITE + SQLITE_OPEN_CREATE
                       + SQLITE_OPEN_EXCLUSIVE + SQLITE_OPEN_DELETEONCLOSE
    /\ OpenOptions_from_flags(arg_flags) = arg_opts

\* The five levels in the order the claim gives them.
Levels == <<"None", "Shared", "Reserved", "Pending", "Exclusive">>
Rank(kind) == CHOOSE i \in 1 .. 5 : Levels[i] = kind

\* C20: partial_cmp orders the levels None < Shared < Reserved < Pending <
\* Exclusive, strictly and totally, as the engine's lock codes 0 .. 4 are
\* ordered; to_i32 and from_i32 undo each other on the five levels and
\* their codes, and from_i32 is None for every other integer.  What a
\* caller holds after a comparison is the ordering of its two levels.
C20_LockOrder ==
    /\ \A a \in LockKind, b \in LockKind :
        /\ partial_cmp(a, b) = "Less" <=> Rank(a) < Rank(b)
        /\ partial_cmp(a, b) = "Equal" <=> a = b
        /\ partial_cmp(a, b) = "Greater" <=> Rank(a) > Rank(b)
        /\ to_i32(a) = Rank(a) - 1
    /\ \A kind \in LockKind : from_i32(to_i32(kind)) = kind
    /\ \A code \in LockCodes :
        IF code \in 0 .. 4
        THEN from_i32(code) \in LockKind /\ to_i32(from_i32(code)) = code
        ELSE from_i32(code) = "Invalid"
    /\ arg_kinds[1] \in LockKind /\ arg_kinds[2] \in LockKind
    /\ arg_cmp # "Unset" =>
        arg_cmp = IF Rank(arg_kinds[1]) < Rank(arg_kinds[2]) THEN "Less"
                  ELSE IF arg_kinds[1] = arg_kinds[2] THEN "Equal"
                  ELSE "Greater"

\* A caller has decoded the code 3 into Pending, holds Exclusive next to
\* it and has found Pending to be the lesser.
C20_Witness ==
    /\ arg_lock = 3
    /\ arg_kinds = <<"Pending", "Exclusive">>
    /\ arg_cmp = "Less"

\* The one backend call of a file method that makes exactly one.
OnlyCall(out, op) == Len(out.calls) = 1 /\ out.calls[1].op = op

\* A step that leaves the file's last_errno and the shared slot alone.
ErrorsKept == UNCHANGED <<last_errno, last_error>>

\* A step that records `no` for f in both places.
ErrorsSet(f, no) ==
    /\ last_errno' = [last_errno EXCEPT ![f] = no]
    /\ last_error'.set /\ last_error'.code = no

\* C21: read makes one read_exact_at call; when that fails with UnexpectedEof
\* it returns IOERR_SHORT_READ and records nothing, so last_errno and the
\* shared slot stay as they were; any other failure returns IOERR_READ and
\* is recorded in both; a read step changes the error state in no other way.
C21_ReadOutcome ==
    \A i_amt \in Amounts, i_ofst \in Offsets :
        \A out \in ReadOutcomes("f1", i_amt, i_ofst) :
            /\ OnlyCall(out, "read_exact_at")
            /\ out.calls[1].args = <<i_amt, i_ofst>>
            /\ out.calls[1].res = "Ok" => out.ret = "SQLITE_OK" /\ out.err = "none"
            /\ out.calls[1].res = "UnexpectedEof" =>
                   out.ret = "SQLITE_IOERR_SHORT_READ" /\ out.err = "none"
            /\ out.calls[1].res \notin {"Ok", "UnexpectedEof"} =>
                   out.ret = "SQLITE_IOERR_READ" /\ out.err = out.calls[1].res

C21_ReadStep ==
    [][\A i_amt \in Amounts, i_ofst \in Offsets :
           read("f1", i_amt, i_ofst) =>
               ErrorsKept \/ ErrorsSet("f1", "SQLITE_IOERR_READ")]_vars

C21_ShortRead == []C21_ReadOutcome /\ C21_ReadStep

\* A read failure other than a short read was recorded, and the next read
\* can come back short.
C21_Witness ==
    /\ last_errno["f1"] = "SQLITE_IOERR_READ"
    /\ last_error.code = "SQLITE_IOERR_READ"
    /\ \E out \in ReadOutcomes("f1", 1, 0) : out.ret = "SQLITE_IOERR_SHORT_READ"

\* n is the smallest multiple of c that is at least size.
SmallestMultiple(n, c, size) == n % c = 0 /\ n >= size /\ n - size < c

\* C22: with a chunk size c > 0 stored, truncate(n) makes one set_len call,
\* with the smallest multiple of c that is >= n (n itself when c divides n);
\* with no chunk size stored the call is set_len(n); when set_len fails the
\* status is IOERR_TRUNCATE, and it is OK otherwise.
C22_ChunkedTruncate ==
    \A size \in Offsets :
        \A out \in TruncateOutcomes("f1", size) :
            LET chunk == chunk_size["f1"]
            IN  /\ chunk.some /\ chunk.size > 0 =>
                    /\ OnlyCall(out, "set_len")
                    /\ SmallestMultiple(out.calls[1].args[1], chunk.size, size)
                    /\ size % chunk.size = 0 => out.calls[1].args = <<size>>
                /\ ~chunk.some =>
                    /\ OnlyCall(out, "set_len")
                    /\ out.calls[1].args = <<size>>
                /\ ~DividesByZero(chunk) =>
                    /\ out.calls[1].res # "Ok" => out.ret = "SQLITE_IOERR_TRUNCATE"
                    /\ out.calls[1].res = "Ok" =>
                           out.ret = "SQLITE_OK" /\ out.len = out.calls[1].args[1]

\* A chunk size of 2 is stored, a set_len has failed, and truncate(3) asks
\* the backend for 4 bytes.
C22_Witness ==
    /\ chunk_size["f1"] = SomeChunk(2)
    /\ last_errno["f1"] = "SQLITE_IOERR_TRUNCATE"
    /\ \E out \in TruncateOutcomes("f1", 3) : out.calls[1].args = <<4>>

\* C23: file_control(SIZE_HINT, h) asks the backend for the size first; when
\* the file is at least as long as the hint (current >= h, equality
\* included) it returns OK and makes no set_len call; otherwise it makes one
\* set_len call, with h rounded up to the chunk size when one is stored and
\* with h when none is.
C23_SizeHint ==
    \A size_hint \in Offsets :
        \A out \in SizeHintOutcomes("f1", FALSE, size_hint) :
            /\ out.calls[1].op = "size"
            /\ out.calls[1].res = "Ok" /\ ~DividesByZero(chunk_size["f1"]) =>
                IF SizeHintSatisfiedInclusive(backend_len["f1"], size_hint)
                THEN out.ret = "SQLITE_OK" /\ Len(out.calls) = 1
                ELSE /\ Len(out.calls) = 2
                     /\ out.calls[2].op = "set_len"
                     /\ out.calls[2].args =
                            <<ChunkedSize(chunk_size["f1"], size_hint)>>

\* C24: close of an initialized file calls backend.delete exactly once, with
\* the file's name, iff the payload has delete_on_close; the payload is
\* destroyed only after that call has answered Ok, and a failed deletion
\* returns DELETE; without delete_on_close there is no backend call and the
\* status is OK.
C24_DeleteOnClose ==
    payload["f1"].init =>
        \A out \in CloseOutcomes("f1") :
            IF payload["f1"].delete_on_close
            THEN /\ Len(out.calls) = 1
                 /\ out.calls[1].op = "delete"
                 /\ out.calls[1].name = payload["f1"].db_name
                 /\ out.calls[1].res # "Ok" => out.ret = "SQLITE_DELETE"
                 /\ out.calls[1].res = "Ok" => out.ret = "SQLITE_OK"
                 /\ out.destroyed => out.calls[1].res = "Ok"
            ELSE out.calls = <<>> /\ out.ret = "SQLITE_OK" /\ out.destroyed

\* A file opened with delete_on_close whose close has failed in the deletion.
C24_Witness ==
    /\ payload["f1"].init
    /\ payload["f1"].delete_on_close
    /\ last_errno["f1"] = "SQLITE_DELETE"
    /\ \E out \in CloseOutcomes("f1") : out.ret = "SQLITE_OK" /\ out.destroyed

\* C25: every close of an initialized file ends with the payload destroyed,
\* also when the deletion fails and close returns DELETE, so that no region,
\* lock slot or handle of the file is live after close has returned.
C25_CloseDestroys ==
    [][\A p_file \in {"f1"} :
           payload[p_file].init /\ close(p_file) =>
               /\ ~payload'[p_file].init
               /\ wal_index'[p_file] = NoIndex
               /\ wal_index_regions'[p_file] = Empty
               /\ wal_index_locks'[p_file] = Empty]_vars

\* C26: close of a slot without a payload (never opened, open failed, or
\* closed before) returns OK, calls nothing in the backend and does not
\* depend on what the memory of the slot holds.
C26_CloseUninit ==
    ~payload["f1"].init =>
        \A out \in CloseOutcomes("f1") :
            out.ret = "SQLITE_OK" /\ out.calls = <<>> /\ ~out.destroyed

\* C27: vfs::delete makes one backend.delete call; success returns OK; a
\* NotFound failure returns IOERR_DELETE_NOENT, not DELETE, and records
\* nothing; every other failure returns DELETE and is recorded; a delete
\* step leaves the shared slot alone or puts the status it returned there.
C27_DeleteOutcome ==
    \A z_path \in Names :
        \A out \in DeleteOutcomes("vfs", z_path) :
            /\ OnlyCall(out, "delete")
            /\ out.calls[1].name = z_path
            /\ out.calls[1].res = "Ok" => out.ret = "SQLITE_OK" /\ out.err = "none"
            /\ out.calls[1].res = "NotFound" =>
                   out.ret = "SQLITE_IOERR_DELETE_NOENT" /\ out.err = "none"
            /\ out.calls[1].res \notin {"Ok", "NotFound"} =>
                   out.ret = "SQLITE_DELETE" /\ out.err = out.calls[1].res

C27_DeleteStep ==
    [][\A z_path \in Names :
           delete("vfs", z_path) =>
               \/ UNCHANGED last_error
               \/ last_error'.set /\ last_error'.code = "SQLITE_DELETE"]_vars

C27_DeleteNoEnt == []C27_DeleteOutcome /\ C27_DeleteStep

\* A deletion has failed and was recorded, and the next one can find no file.
C27_Witness ==
    /\ last_error = [set |-> TRUE, code |-> "SQLITE_DELETE", diag |-> "Other"]
    /\ \A f \in Files : last_errno[f] = "SQLITE_OK"
    /\ \E out \in DeleteOutcomes("vfs", "db") :
           out.ret = "SQLITE_IOERR_DELETE_NOENT"

\* C28: check_reserved_lock writes the boolean backend.reserved() answered
\* through the output pointer and returns OK; when reserved() fails or the
\* pointer is null it returns IOERR_CHECKRESERVEDLOCK, never IOERR_UNLOCK,
\* and records that status, so that last_errno holds it.
C28_CheckReserved ==
    \A p_null \in BOOLEAN :
        \A out \in CheckReservedLockOutcomes("f1", p_null) :
            /\ OnlyCall(out, "reserved")
            /\ IF out.calls[1].res \in {"true", "false"} /\ ~p_null
               THEN /\ out.ret = "SQLITE_OK"
                    /\ out.wrote
                    /\ out.val = BoolInt(out.calls[1].res = "true")
               ELSE /\ out.ret = CheckReservedFailureNamed
                    /\ out.ret # "SQLITE_IOERR_UNLOCK"
                    /\ out.err # "none"
                    /\ ~out.wrote

\* The flag vfs::open stores: false only for a named file opened by URI
\* whose parameter psow reads false.
PsowAtOpen(z_name, flags, uri_psow) ==
    ~(HasBit(flags, SQLITE_OPEN_URI) /\ z_name # NullName /\ ~uri_psow)

\* C29, in every state: device_characteristics returns the powersafe-overwrite
\* bit when the file's flag is set and 0 when it is not; open stores the flag
\* as true unless the URI parameter psow is false; POWERSAFE_OVERWRITE with a
\* non-negative argument makes the flag (argument = 1), with a negative one
\* it writes the flag through the argument and changes nothing; no other
\* file control touches the flag.
C29_FlagAndBit ==
    /\ DeviceCharacteristics("f1") =
           IF payload["f1"].powersafe_overwrite
           THEN SQLITE_IOCAP_POWERSAFE_OVERWRITE ELSE 0
    /\ \A z_name \in ZNames, flags \in OpenFlagArgs, uri_psow \in BOOLEAN :
           \A out \in OpenOutcomes(z_name, flags, "f1", uri_psow) :
               out.init =>
                   out.powersafe_overwrite = PsowAtOpen(z_name, flags, uri_psow)
    /\ \A arg \in ArgVals :
           \A out \in FileControlOutcomes("f1", "SQLITE_FCNTL_POWERSAFE_OVERWRITE",
                                          FALSE, arg) :
               /\ out.ret = "SQLITE_OK"
               /\ arg >= 0 => out.psow = (arg = 1) /\ out.out.val = arg
               /\ arg < 0 =>
                      /\ out.psow = payload["f1"].powersafe_overwrite
                      /\ out.out.val = BoolInt(payload["f1"].powersafe_overwrite)
               /\ out.err = "none" /\ out.calls = <<>>
               /\ out.chunk = chunk_size["f1"] /\ out.len = backend_len["f1"]
               /\ out.persist = persist_wal["f1"]
    /\ \A op \in FcntlOps \ {"SQLITE_FCNTL_POWERSAFE_OVERWRITE"},
          p_null \in BOOLEAN, arg \in ArgVals :
           \A out \in FileControlOutcomes("f1", op, p_null, arg) :
               out.psow = payload["f1"].powersafe_overwrite

\* C29, for every step: the flag changes only in a POWERSAFE_OVERWRITE call
\* with a non-negative argument, to (argument = 1).
C29_FlagStep ==
    [][payload'["f1"].powersafe_overwrite # payload["f1"].powersafe_overwrite =>
           \E arg \in ArgVals :
               /\ arg >= 0
               /\ payload'["f1"].powersafe_overwrite = (arg = 1)
               /\ file_control("f1", "SQLITE_FCNTL_POWERSAFE_OVERWRITE", FALSE, arg)]_vars

C29_PowersafeOverwrite == []C29_FlagAndBit /\ C29_FlagStep

\* The flag was cleared by a file control, queried with a negative argument,
\* and device_characteristics reports no bit.
C29_Witness ==
    /\ ~payload["f1"].powersafe_overwrite
    /\ p_arg.val = 0
    /\ DeviceCharacteristics("f1") = 0

\* The statuses that are no failure to record: success, BUSY, a short read,
\* a full disk.
Unrecorded == {"SQLITE_OK", "SQLITE_READONLY", "SQLITE_BUSY",
               "SQLITE_IOERR_SHORT_READ", "SQLITE_FULL"}

\* The opcodes file_control has code for.
SupportedOps == FcntlOps \ {"SQLITE_FCNTL_PRAGMA", "unknown"}

\* An outcome whose status, when it is a failure, goes to set_last_error and
\* so becomes the file's last_errno and the code in the shared slot.
StatusRecorded(out) ==
    out.ret \notin Unrecorded \cup {Aborted.ret} => out.err # "none"

\* C30: whenever a file method returns a failure other than BUSY,
\* IOERR_SHORT_READ, FULL or the NOTFOUND of an unsupported opcode, the status
\* is recorded, so that last_errno, which file_control(LAST_ERRNO) reports,
\* and the code in the shared slot both equal it.
C30_StatusRecorded ==
    LET f == "f1"
    IN  /\ \A i_amt \in Amounts, i_ofst \in Offsets :
            /\ \A out \in ReadOutcomes(f, i_amt, i_ofst) : StatusRecorded(out)
            /\ \A out \in WriteOutcomes(f, i_amt, i_ofst) : StatusRecorded(out)
        /\ \A size \in Offsets :
            \A out \in TruncateOutcomes(f, size) : StatusRecorded(out)
        /\ \A b \in BOOLEAN :
            /\ \A out \in SyncOutcomes(f, b) : StatusRecorded(out)
            /\ \A out \in FileSizeOutcomes(f, b) : StatusRecorded(out)
            /\ \A out \in CheckReservedLockOutcomes(f, b) : StatusRecorded(out)
        /\ \A e_lock \in LockCodes :
            /\ \A out \in LockOutcomes(f, e_lock) : StatusRecorded(out)
            /\ \A out \in UnlockOutcomes(f, e_lock) : StatusRecorded(out)
        /\ \A op \in SupportedOps, p_null \in BOOLEAN, arg \in ArgVals :
            \A out \in FileControlOutcomes(f, op, p_null, arg) : StatusRecorded(out)
        /\ \A arg \in ArgVals :
            \A out \in FileControlOutcomes(f, "SQLITE_FCNTL_LAST_ERRNO", FALSE, arg) :
                out.out.errno = last_errno[f]
        /\ \A region_ix \in Regions, region_size \in RegionSizes :
            \A out \in ShmMapOutcomes(f, region_ix, region_size) : StatusRecorded(out)
        /\ \A a \in ShmLockArgs :
            \A out \in ShmLockOutcomes(f, a[1], a[2], a[3]) : StatusRecorded(out)
        /\ \A delete_flags \in 0 .. 1 :
            \A out \in ShmUnmapOutcomes(f, delete_flags) : StatusRecorded(out)

\* The (code, diagnostic) pairs one call of the entry points of NextErr can
\* hand to set_last_error.
RecordablePairs ==
    {<<out.ret, out.err>> :
        out \in {o \in UNION ({SyncOutcomes(f, d) : f \in Files, d \in BOOLEAN}
                        \cup {DeleteOutcomes("vfs", z) : z \in Names \cup {BadName}})
                  : o.err # "none"}}
    \cup {<<out.ret, out.err>> :
        out \in {o \in UNION {CheckReservedLockOutcomes(f, p)
                               : f \in Files, p \in BOOLEAN}
                  : o.err # "none"}}
    \cup {<<out.ret, out.err>> :
        out \in {o \in UNION {AccessOutcomes("vfs", z, a, p)
                               : z \in Names \cup {BadName}, a \in AccessFlags,
                                 p \in BOOLEAN}
                  : o.err # "none"}}
    \cup {<<out.ret, out.err>> :
        out \in {o \in UNION {FullPathnameOutcomes("vfs", z, n)
                               : z \in Names \cup {BadName}, n \in OutSizes}
                  : o.err # "none"}}

\* get_last_error hands out the code in the slot, and OK exactly when the
\* slot is empty, whatever buffer the engine brings.
ReportsSlot ==
    \A n_byte \in ByteCounts : \A out \in GetLastErrorOutcomes("vfs", n_byte) :
        /\ last_error.set => out.ret = last_error.code
        /\ out.ret = "SQLITE_OK" <=> ~last_error.set

\* The slot holds nothing, or the pair of one recorded failure.
C31_OnePair ==
    /\ last_error.set => <<last_error.code, last_error.diag>> \in RecordablePairs
    /\ last_error.set => last_error.code # "SQLITE_OK"
    /\ \A f \in Files : last_errno[f] # "SQLITE_OK" => last_error.set

\* A step never empties the slot; a step that changes a file's last_errno
\* changes no other file's, and leaves the same code in the slot.
C31_SlotStep ==
    [][/\ last_error.set => last_error'.set
       /\ \A f \in Files :
            last_errno'[f] # last_errno[f] =>
                /\ last_error'.set /\ last_error'.code = last_errno'[f]
                /\ \A g \in Files \ {f} : last_errno'[g] = last_errno[g]]_vars

\* C31: the error slot is shared by the VFS and all its files:
\* get_last_error returns the code of the most recent recorded failure and
\* OK iff none was ever recorded, a failure recorded through one file leaves
\* the other files' last_errno alone, and the slot always holds the pair of
\* exactly one failure.
C31_SharedErrorSlot ==
    /\ [](C31_OnePair /\ ReportsSlot)
    /\ C31_SlotStep

\* A set_len that has its write lock and is about to fetch the object.
Resizing(c) ==
    /\ client[c].pc.op = "set_len"
    /\ client[c].pc.phase = "body"
    /\ client[c].pc.at = "get_object"

\* Whatever the object holds when set_len fetches it, the bytes set_len goes
\* on to store are the first `size` of it, padded with zeros up to `size`.
C32_Resized ==
    \A c \in Clients :
        Resizing(c) /\ Stored(s3, client[c].obj_key).exists =>
            LET found == Stored(s3, client[c].obj_key).bytes
                out == SetLen(found, client[c].size)
            IN  /\ ~out.panic
                /\ Len(out.bytes) = client[c].size
                /\ out = SetLenExtending(found, client[c].size)

\* The put_object of set_len leaves the object exactly `size` bytes long.
C32_Stored ==
    [][\A c \in Clients :
          /\ client[c].pc.op = "set_len" /\ client[c].pc.at = "put_object"
          /\ client'[c].pc.at # "put_object"
          => Len(Stored(s3', client[c].obj_key).bytes) = client[c].size]_vars

\* C32: Handle::set_len(size) leaves the stored object exactly size bytes
\* long for every current length and every size: a shorter object is
\* extended with zeros, a longer one truncated to its first size bytes, and
\* no length computation underflows.
C32_SetLen == []C32_Resized /\ C32_Stored

\* Slot s of file f, recorded as Exclusive on a writable index, is recorded
\* as `mode` after the step ("absent": not recorded at all).
GivesUp(f, s, mode) ==
    /\ wal_index[f].present /\ ~wal_index[f].readonly
    /\ s \in DOMAIN wal_index_locks[f] /\ wal_index_locks[f][s] = "Exclusive"
    /\ IF s \in DOMAIN wal_index_locks'[f] THEN wal_index_locks'[f][s] = mode
       ELSE mode = "absent"

\* After the step the backend holds every region as the file had it.
Published(f) ==
    \A r \in DOMAIN wal_index_regions[f] :
        backend_regions'[r] = wal_index_regions[f][r].data

\* C33: over a backend that implements push, whenever a slot of a writable
\* WAL index stops being recorded as Exclusive, by an shm_lock release, by
\* an shm_lock acquisition that overwrites it with Shared or by shm_unmap,
\* every materialized region was pushed to the backend within that call.
C33_PushedWhenGivenUp ==
    [][\A f \in Files, s \in Slots :
          \A mode \in {"None", "Shared", "absent"} :
              backend_syncs /\ GivesUp(f, s, mode) => Published(f)]_vars

\* C36: a stored chunk size is always positive, and no truncate and no
\* file_control(SIZE_HINT) that may follow divides by zero or aborts.
C36_PositiveChunk ==
    \A f \in {"f1"} :
        /\ chunk_size[f].some => chunk_size[f].size > 0
        /\ \A size \in Offsets :
               \A out \in TruncateOutcomes(f, size) : out.ret # Aborted.ret
        /\ \A p_null \in BOOLEAN, arg \in ArgVals :
               \A out \in SizeHintOutcomes(f, p_null, arg) : out.ret # Aborted.ret

\* The positions of the pulls and pushes of a trace that the backend failed.
FailedTransfers(calls) ==
    {i \in 1 .. Len(calls) : calls[i].op \in {"pull", "push"} /\ calls[i].res = "Err"}

\* C35: a pull that fails in the acquire pre-step of shm_lock, or a push
\* that fails in its release pre-step, is the last backend call of the
\* call: shm_lock returns IOERR_SHMLOCK with the backend's error recorded,
\* wal_index.lock is not called, and wal_index_locks is as it was, so that a
\* slot recorded as Exclusive stays recorded as Exclusive.
C35_PreStepFailure ==
    \A f \in Files, a \in ShmLockArgs :
        \A out \in ShmLockOutcomes(f, a[1], a[2], a[3]) :
            FailedTransfers(out.calls) # {} =>
                /\ FailedTransfers(out.calls) = {Len(out.calls)}
                /\ out.calls[Len(out.calls)].op =
                       (IF "LOCK" \in a[3] THEN "pull" ELSE "push")
                /\ out.ret = "SQLITE_IOERR_SHMLOCK"
                /\ out.err = "External"
                /\ CallsOf(out.calls, "lock") = {}
                /\ out.locks = wal_index_locks[f]
                /\ out.held = backend_locks[f]

\* A release of slot 0, held Exclusive with every region materialized,
\* whose second push fails; and the error of such a call in the slot while
\* the slot is still recorded as Exclusive.
C35_Witness ==
    /\ DOMAIN wal_index_regions["f1"] = Regions
    /\ 0 \in DOMAIN wal_index_locks["f1"] /\ wal_index_locks["f1"][0] = "Exclusive"
    /\ last_error.set /\ last_error.code = "SQLITE_IOERR_SHMLOCK"
    /\ \E out \in ShmLockOutcomes("f1", 0, 1, {"UNLOCK", "EXCLUSIVE"}) :
           /\ FailedTransfers(out.calls) = {2}
           /\ out.locks[0] = "Exclusive"

\* The mode wal_index_locks records for a slot, an absent slot counting as None.
RecordedMode(f, s) ==
    IF s \in DOMAIN wal_index_locks[f] THEN wal_index_locks[f][s] ELSE "None"

\* C37: in every reachable state and for every slot, the mode the file has
\* on record in wal_index_locks is the mode the backend last granted to the
\* file for that slot; after shm_unmap the backend therefore holds no
\* Shared or Exclusive slot for the file.
C37_RecordIsGrant ==
    \A f \in Files, s \in Slots : RecordedMode(f, s) = backend_locks[f][s]

\* A pull of a running shm_barrier replaces the content of a buffer of f.
BarrierOverwrites(f) ==
    /\ barrier_pc[f].mode = "pull"
    /\ barrier_pc'[f] # barrier_pc[f]
    /\ wal_index_regions'[f] # wal_index_regions[f]

\* The step changes wal_index_locks of f: every slot of the range of the
\* running shm_lock is recorded in the requested mode afterwards.
WholeRange(f) ==
    /\ pc[f].state = "lock"
    /\ \A s \in RangeSlots(ShmRange(pc[f].offset, pc[f].n)) :
           /\ s \in DOMAIN wal_index_locks'[f]
           /\ wal_index_locks'[f][s] = ShmLockMode(pc[f].flags)

\* C34: with shm_barrier and shm_lock running concurrently on one file and
\* giving way to each other at every backend call, no pull of shm_barrier
\* overwrites a region buffer while the file has a slot recorded as
\* Exclusive, and wal_index_locks only ever changes for a whole lock range
\* at once.
C34_BarrierRace ==
    [][\A f \in Files :
          /\ BarrierOverwrites(f) => ~HasExclusive(wal_index_locks[f])
          /\ wal_index_locks'[f] # wal_index_locks[f] => WholeRange(f)]_vars

\* The client has returned from the request_read_lock or request_write_lock
\* of a call in `ops` and not yet from the release that follows it.
Holding(c, ops) ==
    \/ /\ client[c].pc.op \in ops
       /\ client[c].pc.phase \in {"body", "release", "failed"}
       /\ client[c].pc.at # "panic"
    \/ /\ "set_len" \in ops
       /\ client[c].pc = AtRest
       /\ client[c].current_lock # NoId

\* C38: a client between request_write_lock and release_write_lock never
\* overlaps with a client between request_read_lock and release_read_lock,
\* nor with another such writer; and request_write_lock has returned only
\* with the metadata it wrote being Writer(own id), no reader registered.
C38_ReaderWriterExclusion ==
    /\ \A c, d \in Clients :
           c # d /\ Holding(c, Writes) => ~Holding(d, Reads \cup Writes)
    /\ \A c \in Clients :
           client[c].pc.op \in Writes /\ client[c].pc.phase = "request"
               /\ client[c].pc.at = "write_metadata"
               => /\ MetadataToWrite(client[c]) = MetadataWriter(client[c].rw_uuid)
                  /\ client[c].meta.kind = "Reader" => client[c].meta.readers = {}

\* The client is inside a read_exact_at, write_at or get_database_size.
Calling(c) == client[c].pc.op \in {"read_exact_at", "write_at", "get_database_size"}

\* The call has returned: the client is at rest, and the metadata it left in
\* the lock file registers no reader and no writer.
Returned(c) ==
    /\ client[c].pc = AtRest
    /\ Deserialize(s3.lock_file.body) \in {MetadataNone, MetadataReader({}, NoId)}

\* C40: with one client and a store that never fails, on a bucket whose
\* lock file is absent or released, every read_exact_at, write_at and
\* get_database_size call eventually returns and leaves the metadata with no
\* reader or writer registered.
C40_Progress ==
    s3.lock_file.hold # "On" => (Calling("c1") ~> Returned("c1"))

\* C39: S3FileLock is a mutual exclusion lock: at most one client at a time
\* is between a return of request_lock and its release_lock.
C39_FileLockExclusion ==
    \A c, d \in Clients :
        client[c].file_lock # NoId /\ client[d].file_lock # NoId => c = d

====
